---- MODULE Spec2Model ----
(***************************************************************************)
(* A model of the AI orchestration core of the resume tailor:              *)
(*   - formatAIResponse    (utils/formatAIResponse.ts)                     *)
(*   - withRetry, preprocessText, generateInitialResumeDraft,              *)
(*     changeResumeTone, fetchBestPractices, refineResume                  *)
(*                         (services/geminiService.ts)                     *)
(*   - the wizard: navigation history, drafts, loading flags and the       *)
(*     handlers that call the operations        (App.tsx)                  *)
(*   - the text area, feedback and undo of the review step                 *)
(*                         (components/ResumeReviewer.tsx)                 *)
(*   - the list of selected files (components/ResumeUploader.tsx)          *)
(* Text is modelled as a sequence of one-character strings, so that the    *)
(* string operations of the code (trim, includes, split, substring, the    *)
(* regular-expression replacements) are computed on characters.            *)
(***************************************************************************)
EXTENDS Integers, Sequences, FiniteSets, TLC

VARIABLES
    op,               \* the operation being executed
    pc,               \* its position: "start", "fetch", "call", "open", "done", "failed"
    text,             \* preprocessText: the text argument
    useBestPractices, \* refineResume: the useBestPractices argument
    rpc,              \* withRetry: "idle", "call" (apiCall pending), "wait" (backoff
                      \*            timer pending), "returned", "thrown"
    i,                \* withRetry: the loop counter
    lastError,        \* withRetry: <<>> for null, <<message>> otherwise
    delay,            \* withRetry: the delay of the pending backoff timer, in ms
    calls,            \* the outcome of each apiCall() of the current withRetry invocation
    fullRawText,      \* streaming loop: the raw text accumulated so far
    lastSent,         \* streaming loop: lastSentFormattedText / lastSentFormattedResume
    sent,             \* the arguments of the onChunk calls, in order
    bestPracticesText,\* refineResume: the best-practices content given to the prompt
    fetched,          \* refineResume: "none", "ok" (try completed), "failed" (catch taken)
    sources,          \* the sources returned by fetchBestPractices / passed to onSources
    changelog,        \* the metadata passed to onComplete: <<>> before, <<[changelog]>> after
    response,         \* the last response of the service: <<>> or <<response>>
    log,              \* the service calls, stream increments and callbacks so far, in order
    underlying,       \* the error caught by the operation: <<>> or <<message>>
    thrown,           \* the error the operation raises to its caller: <<>> or <<message>>
    result,           \* the value the operation returns: <<>> or <<value>>
    fmt,              \* formatAIResponse: <<input, f(input), f(f(input))>> as far as applied
    app,              \* App: the React state of the App component (and the tone
                      \*      selected in ResumeReviewer)
    tasks,            \* App: the handler invocations suspended at an await, in order
                      \*      of their start, each with the history and currentStep
                      \*      that its closure captured
    reviewer,         \* ResumeReviewer: editableText, feedback, useBestPractices and
                      \*      previousDraftText of the mounted component
    uploader          \* ResumeUploader: files (their names) and uploadWarning

appVars == <<app, tasks, reviewer, uploader>>
\* the operation called, its arguments, and the state of the caller
opVars == <<op, text, useBestPractices, appVars>>
retryVars == <<rpc, i, lastError, delay, calls>>
streamVars == <<fullRawText, lastSent, sent>>
refineVars == <<bestPracticesText, fetched, sources, changelog>>
\* log and response are listed by each action
outVars == <<underlying, thrown, result>>
vars == <<op, pc, text, useBestPractices, rpc, i, lastError, delay, calls,
          fullRawText, lastSent, sent, bestPracticesText, fetched, sources,
          changelog, response, log, underlying, thrown, result, fmt,
          app, tasks, reviewer, uploader>>

(***************************************************************************)
(* Bounds of the model                                                     *)
(***************************************************************************)
\* number of text fragments an input of formatAIResponse is built from
MaxFragments == 3
\* number of increments a stream delivers
MaxIncrements == 3
\* number of grounding chunks in a response
MaxSources == 3
\* number of handler invocations of App suspended at an await at a time
MaxTasks == 2
\* length of the text of a draft of App up to which onChunk is called
MaxDraftLength == 1

(***************************************************************************)
(* Strings                                                                 *)
(***************************************************************************)
\* a TLA+ string as a sequence of characters
ToSeq(str) == [k \in 1..Len(str) |-> SubSeq(str, k, k)]

MinOf(S) == CHOOSE x \in S : \A y \in S : x <= y
MaxOf(S) == CHOOSE x \in S : \A y \in S : x >= y

\* the characters String.prototype.trim and the regex class \s remove
IsWhitespace(c) == c \in {" ", "\n", "\t", "\r"}

\* the regex class \d
IsDigit(c) == c \in {"0", "1", "2", "3", "4", "5", "6", "7", "8", "9"}

\* String.prototype.trim
Trim(s) ==
    LET keep == {k \in 1..Len(s) : ~IsWhitespace(s[k])}
    IN  IF keep = {} THEN <<>> ELSE SubSeq(s, MinOf(keep), MaxOf(keep))

\* s.startsWith(pat) at position k (1-based)
MatchAt(s, pat, k) ==
    /\ k >= 1
    /\ k + Len(pat) - 1 <= Len(s)
    /\ SubSeq(s, k, k + Len(pat) - 1) = pat

StartsWith(s, pat) == MatchAt(s, pat, 1)

\* String.prototype.includes
Includes(s, pat) == \E k \in 1..(Len(s) - Len(pat) + 1) : MatchAt(s, pat, k)

\* String.prototype.indexOf, 1-based; 0 when pat does not occur (-1 in the code)
IndexOf(s, pat) ==
    LET at == {k \in 1..(Len(s) - Len(pat) + 1) : MatchAt(s, pat, k)}
    IN  IF at = {} THEN 0 ELSE MinOf(at)

\* String.prototype.substring(from) with a 0-based from
Substring(s, from) == SubSeq(s, from + 1, Len(s))

\* the regex '.' matches everything but a line terminator
NoNewline(s, a, b) == \A k \in a..b : s[k] \notin {"\n", "\r"}

(***************************************************************************)
(* formatAIResponse                                                        *)
(***************************************************************************)
\* replace(/MM(.*?)MM/g, '$1') for a doubled marker character m: scanning from
\* position k, a match opens at mm and closes at the nearest later mm on the line
RECURSIVE StripDouble(_, _, _)
StripDouble(s, m, k) ==
    IF k > Len(s) THEN <<>>
    ELSE LET closes == {j \in (k + 2)..(Len(s) - 1) :
                           /\ s[j] = m /\ s[j + 1] = m
                           /\ NoNewline(s, k + 2, j - 1)}
         IN  IF MatchAt(s, <<m, m>>, k) /\ closes # {}
             THEN LET j == MinOf(closes)
                  IN  SubSeq(s, k + 2, j - 1) \o StripDouble(s, m, j + 2)
             ELSE <<s[k]>> \o StripDouble(s, m, k + 1)

\* (?<!\*)\*(?!\*): a star with no star before it and none after it
LoneStar(s, k) ==
    /\ k >= 1 /\ k <= Len(s)
    /\ s[k] = "*"
    /\ (k = 1 \/ s[k - 1] # "*")
    /\ (k = Len(s) \/ s[k + 1] # "*")

\* replace(/(?<!\*)\*(?!\*)(.*?)(?<!\*)\*(?!\*)/g, '$1')
RECURSIVE StripItalicStar(_, _)
StripItalicStar(s, k) ==
    IF k > Len(s) THEN <<>>
    ELSE LET closes == {j \in (k + 1)..Len(s) :
                           LoneStar(s, j) /\ NoNewline(s, k + 1, j - 1)}
         IN  IF LoneStar(s, k) /\ closes # {}
             THEN LET j == MinOf(closes)
                  IN  SubSeq(s, k + 1, j - 1) \o StripItalicStar(s, j + 1)
             ELSE <<s[k]>> \o StripItalicStar(s, k + 1)

\* replace(/_(.*?)_/g, '$1')
RECURSIVE StripItalicUnderscore(_, _)
StripItalicUnderscore(s, k) ==
    IF k > Len(s) THEN <<>>
    ELSE LET closes == {j \in (k + 1)..Len(s) :
                           s[j] = "_" /\ NoNewline(s, k + 1, j - 1)}
         IN  IF s[k] = "_" /\ closes # {}
             THEN LET j == MinOf(closes)
                  IN  SubSeq(s, k + 1, j - 1) \o StripItalicUnderscore(s, j + 1)
             ELSE <<s[k]>> \o StripItalicUnderscore(s, k + 1)

\* String.prototype.split('\n'): the sequence of lines
RECURSIVE SplitLines(_)
SplitLines(s) ==
    LET nl == IndexOf(s, <<"\n">>)
    IN  IF nl = 0 THEN <<s>>
        ELSE <<SubSeq(s, 1, nl - 1)>> \o SplitLines(SubSeq(s, nl + 1, Len(s)))

\* Array.prototype.join('\n')
RECURSIVE JoinLines(_)
JoinLines(lines) ==
    IF Len(lines) = 0 THEN <<>>
    ELSE IF Len(lines) = 1 THEN lines[1]
    ELSE lines[1] \o <<"\n">> \o JoinLines(Tail(lines))

\* /^\d+\.\s/.test(t)
OrderedMarker(t) ==
    \E n \in 1..Len(t) :
        /\ \A k \in 1..n : IsDigit(t[k])
        /\ n + 2 <= Len(t)
        /\ t[n + 1] = "."
        /\ IsWhitespace(t[n + 2])

\* the callback of lines.map
FormatLine(line) ==
    LET trimmedLine == Trim(line)
    IN  IF \/ StartsWith(trimmedLine, <<"*", " ">>)
           \/ StartsWith(trimmedLine, <<"-", " ">>)
           \/ OrderedMarker(trimmedLine)
        THEN <<" ", " ">> \o Substring(trimmedLine, (IndexOf(trimmedLine, <<" ">>) - 1) + 1)
        ELSE line

formatAIResponse(rawText) ==
    IF rawText = <<>> THEN <<>>
    ELSE LET bold1 == StripDouble(rawText, "*", 1)
             bold2 == StripDouble(bold1, "_", 1)
             ital1 == StripItalicStar(bold2, 1)
             ital2 == StripItalicUnderscore(ital1, 1)
             lines == SplitLines(ital2)
             formattedLines == [k \in 1..Len(lines) |-> FormatLine(lines[k])]
         IN  Trim(JoinLines(formattedLines))

(***************************************************************************)
(* withRetry                                                               *)
(***************************************************************************)
MAX_RETRIES == 7
INITIAL_BACKOFF_MS == 2000
MAX_BACKOFF_MS == 30000

\* an Error object with the given message
Err(str) == [message |-> ToSeq(str)]

getErrorMessage(error) == error.message

LowerCase == ToSeq("abcdefghijklmnopqrstuvwxyz")
UpperCase == ToSeq("ABCDEFGHIJKLMNOPQRSTUVWXYZ")

\* String.prototype.toUpperCase
toUpperCase(s) ==
    [k \in 1..Len(s) |->
        IF \E n \in 1..26 : LowerCase[n] = s[k]
        THEN UpperCase[CHOOSE n \in 1..26 : LowerCase[n] = s[k]]
        ELSE s[k]]

\* a classification that compares the textual markers with the message as it is
isRetryableErrorCaseSensitive(errorMessage) ==
    \/ Includes(errorMessage, ToSeq("429"))
    \/ Includes(errorMessage, ToSeq("500"))
    \/ Includes(errorMessage, ToSeq("503"))
    \/ Includes(errorMessage, ToSeq("SERVICE UNAVAILABLE"))
    \/ Includes(errorMessage, ToSeq("RESOURCE_EXHAUSTED"))
    \/ Includes(errorMessage, ToSeq("RATE LIMIT"))

isRetryableError(errorMessage) ==
    \/ Includes(errorMessage, ToSeq("429"))
    \/ Includes(errorMessage, ToSeq("500"))
    \/ Includes(errorMessage, ToSeq("503"))
    \/ Includes(toUpperCase(errorMessage), ToSeq("SERVICE UNAVAILABLE"))
    \/ Includes(toUpperCase(errorMessage), ToSeq("RESOURCE_EXHAUSTED"))
    \/ Includes(toUpperCase(errorMessage), ToSeq("RATE LIMIT"))

\* a withRetry that waits and tries again whatever the error is
RetryAgainAnyError(errorMessage, n) ==
    n < MAX_RETRIES - 1

\* the condition under which the loop waits and tries again
RetryAgain(errorMessage, n) ==
    isRetryableError(errorMessage) /\ n < MAX_RETRIES - 1

\* a backoff without the MAX_BACKOFF_MS cap
BaseDelayUncapped(n) == INITIAL_BACKOFF_MS * (2 ^ n)

\* Math.min(INITIAL_BACKOFF_MS * Math.pow(2, i), MAX_BACKOFF_MS)
BaseDelay(n) ==
    LET backoff == INITIAL_BACKOFF_MS * (2 ^ n)
    IN  IF backoff < MAX_BACKOFF_MS THEN backoff ELSE MAX_BACKOFF_MS

\* Math.random() * 1000 lies in [0, 1000); the whole milliseconds sampled
Jitters == {0, 999}

\* the errors the service raises
ServiceErrors ==
    { Err("got status: 429 Too Many Requests"),
      Err("RESOURCE_EXHAUSTED"),
      Err("500 Internal Server Error"),
      Err("Error 503"),
      Err("Service Unavailable"),
      Err("rate limit exceeded"),
      Err("400 Bad Request"),
      Err("fetch failed"),
      Err("Resource_Exhausted: quota"),
      Err("RESOURCE EXHAUSTED"),
      Err("Rate Limit"),
      Err("rate-limit"),
      Err("SERVICE_UNAVAILABLE"),
      Err("status 4 29, code 50 3") }

\* the service call that withRetry wraps at this point
ApiName ==
    IF op = "withRetry" THEN "apiCall"
    ELSE IF pc = "open" THEN "generateContentStream"
    ELSE "generateContent"

\* entry of withRetry: lastError = null, i = 0, first apiCall() pending
BeginRetry ==
    /\ rpc' = "call" /\ i' = 0 /\ lastError' = <<>> /\ delay' = 0 /\ calls' = <<>>

\* apiCall() resolves: withRetry returns its value
RetryCallOk ==
    /\ rpc = "call"
    /\ rpc' = "returned"
    /\ calls' = Append(calls, "ok")
    /\ log' = Append(log, ApiName)
    /\ UNCHANGED <<opVars, pc, i, lastError, delay, streamVars, refineVars,
                   response, outVars, fmt>>

\* a withRetry that raises its own error instead of the one it caught
RethrowOwnError(error) == Err("Request failed after multiple retries.")

\* throw error: the error caught in this iteration is raised again
Rethrow(error) == error

\* apiCall() rejects: wait and try again, or rethrow
RetryCallFail(errors) ==
    /\ rpc = "call"
    /\ \E error \in errors :
        LET errorMessage == getErrorMessage(error)
        IN  /\ lastError' = <<error>>
            /\ calls' = Append(calls, IF isRetryableError(errorMessage)
                                      THEN "retryable" ELSE "fatal")
            /\ IF RetryAgain(errorMessage, i)
               THEN /\ rpc' = "wait"
                    /\ \E jitter \in Jitters : delay' = BaseDelay(i) + jitter
                    /\ thrown' = thrown
               ELSE /\ rpc' = "thrown"
                    /\ delay' = delay
                    /\ thrown' = IF op = "withRetry" THEN <<Rethrow(error)>> ELSE thrown
    /\ log' = Append(log, ApiName)
    /\ UNCHANGED <<opVars, pc, i, streamVars, refineVars, response, underlying,
                   result, fmt>>

\* the backoff timer fires: i++ and the next apiCall(); the throw after the loop
RetryWait ==
    /\ rpc = "wait"
    /\ i' = i + 1
    /\ delay' = 0
    /\ IF i + 1 < MAX_RETRIES
       THEN rpc' = "call" /\ lastError' = lastError /\ thrown' = thrown
       ELSE /\ rpc' = "thrown"
            /\ lastError' = IF lastError # <<>> THEN lastError
                            ELSE <<Err("Request failed after multiple retries.")>>
            /\ thrown' = IF op = "withRetry" THEN lastError' ELSE thrown
    /\ UNCHANGED <<opVars, pc, calls, streamVars, refineVars, response, log,
                   underlying, result, fmt>>

(***************************************************************************)
(* The streaming operations: generateInitialResumeDraft, changeResumeTone, *)
(* refineResume                                                            *)
(***************************************************************************)
StreamingOps == {"generateInitialResumeDraft", "changeResumeTone", "refineResume"}

changelogDelimiter == ToSeq("---CHANGELOG---")

\* fullResponseText.split(changelogDelimiter)[0]: the text before the first delimiter
BeforeDelimiter(s) == SubSeq(s, 1, IndexOf(s, changelogDelimiter) - 1)

\* parts.slice(1).join(changelogDelimiter): the text after the first delimiter
AfterDelimiter(s) ==
    SubSeq(s, IndexOf(s, changelogDelimiter) + Len(changelogDelimiter), Len(s))

\* the part of the accumulated raw text that the loop formats
ResumePart(o, full) ==
    IF o = "refineResume" /\ Includes(full, changelogDelimiter)
    THEN BeforeDelimiter(full)
    ELSE full

\* a loop that also emits when the formatted text has not grown
HasNewTextOrSame(formattedText, lastSentFormattedText) ==
    Len(formattedText) >= Len(lastSentFormattedText)

\* formattedText.length > lastSentFormattedText.length
HasNewText(formattedText, lastSentFormattedText) ==
    Len(formattedText) > Len(lastSentFormattedText)

\* formattedText.substring(lastSentFormattedText.length)
NewChunk(formattedText, lastSentFormattedText) ==
    Substring(formattedText, Len(lastSentFormattedText))

EmptyResponseError(o) ==
    IF o = "generateInitialResumeDraft"
    THEN Err("The AI returned an empty response. Please try again.")
    ELSE Err("The AI returned an empty response while changing tone. Please try again.")

ServiceBusyError(o) ==
    IF o = "changeResumeTone"
    THEN Err("The AI service is currently busy. Please try again in a moment.")
    ELSE Err("The AI service is currently experiencing high traffic. Please try again in a few moments.")

GenericError(o) ==
    IF o = "generateInitialResumeDraft"
    THEN Err("Failed to generate the resume draft from the AI. The service may be temporarily unavailable.")
    ELSE IF o = "changeResumeTone"
    THEN Err("Failed to change the resume tone. The AI service may be temporarily unavailable.")
    ELSE Err("Failed to refine the resume with the AI. The service may be temporarily unavailable.")

\* the condition of the catch block of each operation
IsBusyMessage(o, errorMessage) ==
    IF o = "changeResumeTone"
    THEN Includes(errorMessage, ToSeq("429"))
    ELSE \/ Includes(errorMessage, ToSeq("429"))
         \/ Includes(toUpperCase(errorMessage), ToSeq("RESOURCE_EXHAUSTED"))

\* the error the catch block of operation o throws for a caught error
CatchError(o, error) ==
    IF IsBusyMessage(o, getErrorMessage(error))
    THEN ServiceBusyError(o)
    ELSE GenericError(o)

\* the catch block: the operation fails
Catch(error) ==
    /\ underlying' = <<error>>
    /\ thrown' = <<CatchError(op, error)>>
    /\ pc' = "failed"

\* the operation is called: the prompt is built and the stream is requested
StreamOpStart ==
    /\ op \in {"generateInitialResumeDraft", "changeResumeTone"}
    /\ pc = "start"
    /\ pc' = "open"
    /\ BeginRetry
    /\ UNCHANGED <<opVars, streamVars, refineVars, response, log, outVars, fmt>>

\* withRetry raised: no stream
OpenFailed ==
    /\ op \in StreamingOps /\ pc = "open" /\ rpc = "thrown"
    /\ Catch(lastError[1])
    /\ UNCHANGED <<opVars, retryVars, streamVars, refineVars, response, log,
                   result, fmt>>

\* the increments of the stream received so far
Increments == Len(SelectSeq(log, LAMBDA e : e = "chunk"))

\* one iteration of the for-await loop: the stream yields chunk.text = rawChunk
StreamChunk(chunks) ==
    /\ op \in StreamingOps /\ pc = "open" /\ rpc = "returned"
    /\ Increments < MaxIncrements
    /\ \E rawChunk \in chunks :
        LET full == fullRawText \o rawChunk
            formattedText == formatAIResponse(ResumePart(op, full))
        IN  IF rawChunk = <<>>
            THEN /\ log' = Append(log, "chunk")
                 /\ UNCHANGED streamVars
            ELSE /\ fullRawText' = full
                 /\ IF HasNewText(formattedText, lastSent)
                    THEN /\ sent' = Append(sent, NewChunk(formattedText, lastSent))
                         /\ lastSent' = formattedText
                         /\ log' = log \o <<"chunk", "onChunk">>
                    ELSE /\ log' = Append(log, "chunk")
                         /\ UNCHANGED <<sent, lastSent>>
    /\ UNCHANGED <<opVars, pc, retryVars, refineVars, response, outVars, fmt>>

\* a loop that asks for a new stream when the stream raises
StreamErrorReopens(errors) ==
    /\ op \in StreamingOps /\ pc = "open" /\ rpc = "returned"
    /\ Len(calls) < MAX_RETRIES
    /\ rpc' = "call"
    /\ UNCHANGED <<opVars, pc, i, lastError, delay, calls, streamVars, refineVars,
                   response, log, outVars, fmt>>

\* the stream raises while it is iterated
StreamError(errors) ==
    /\ op \in StreamingOps /\ pc = "open" /\ rpc = "returned"
    /\ \E error \in errors : Catch(error)
    /\ UNCHANGED <<opVars, retryVars, streamVars, refineVars, response, log,
                   result, fmt>>

\* the stream of generateInitialResumeDraft / changeResumeTone ends
StreamEnd ==
    /\ op \in {"generateInitialResumeDraft", "changeResumeTone"}
    /\ pc = "open" /\ rpc = "returned"
    /\ LET finalFormattedText == formatAIResponse(Trim(fullRawText))
       IN  IF finalFormattedText = <<>>
           THEN Catch(EmptyResponseError(op)) /\ result' = result
           ELSE /\ result' = <<finalFormattedText>>
                /\ pc' = "done"
                /\ UNCHANGED <<underlying, thrown>>
    /\ UNCHANGED <<opVars, retryVars, streamVars, refineVars, response, log, fmt>>

\* the changelog that refineResume passes to onComplete
Changelog(fullText) ==
    IF Includes(fullText, changelogDelimiter)
    THEN [defined |-> TRUE, text |-> formatAIResponse(Trim(AfterDelimiter(fullText)))]
    ELSE [defined |-> FALSE, text |-> <<>>]

\* a refineResume that calls onComplete while the stream is still open
RefineEndEarly ==
    /\ op = "refineResume" /\ pc = "open" /\ rpc = "returned"
    /\ Len(SelectSeq(log, LAMBDA e : e = "onComplete")) < 2
    /\ changelog' = <<Changelog(Trim(fullRawText))>>
    /\ log' = Append(log, "onComplete")
    /\ UNCHANGED <<opVars, pc, retryVars, streamVars, bestPracticesText, fetched,
                   sources, response, outVars, fmt>>

\* the stream of refineResume ends
RefineEnd ==
    /\ op = "refineResume" /\ pc = "open" /\ rpc = "returned"
    /\ changelog' = <<Changelog(Trim(fullRawText))>>
    /\ log' = Append(log, "onComplete")
    /\ pc' = "done"
    /\ UNCHANGED <<opVars, retryVars, streamVars, bestPracticesText, fetched,
                   sources, response, outVars, fmt>>

(***************************************************************************)
(* fetchBestPractices and the first step of refineResume                   *)
(***************************************************************************)
\* a grounding chunk: web is <<>> when the chunk has no web field
Source(uri, title) == [web |-> <<[uri |-> uri, title |-> title]>>]
NoWebSource == [web |-> <<>>]

\* the loop over response.candidates: every groundingChunks list, concatenated
RECURSIVE CollectSources(_)
CollectSources(candidates) ==
    IF candidates = <<>> THEN <<>>
    ELSE Head(candidates) \o CollectSources(Tail(candidates))

\* the k-th smallest element of a set of numbers
Nth(S, k) == CHOOSE x \in S : Cardinality({y \in S : y <= x}) = k

\* a de-duplication that keeps the first entry seen for a uri
UniqueSourcesKeepFirst(allSources) ==
    LET uri(k) == allSources[k].web[1].uri
        firsts == {k \in 1..Len(allSources) : \A j \in 1..(k - 1) : uri(j) # uri(k)}
    IN  [n \in 1..Cardinality(firsts) |-> allSources[Nth(firsts, n)]]

\* Array.from(new Map(allSources.map(s => [s.web.uri, s])).values()):
\* a Map keeps a key at the position of its first insertion and the value of its last
UniqueSources(allSources) ==
    LET uri(k) == allSources[k].web[1].uri
        firsts == {k \in 1..Len(allSources) : \A j \in 1..(k - 1) : uri(j) # uri(k)}
        lastOf(k) == MaxOf({j \in 1..Len(allSources) : uri(j) = uri(k)})
    IN  [n \in 1..Cardinality(firsts) |-> allSources[lastOf(Nth(firsts, n))]]

\* uniqueSources.filter(s => s.web?.uri)
FilterSources(uniqueSources) ==
    SelectSeq(uniqueSources, LAMBDA s : s.web # <<>> /\ s.web[1].uri # "")

\* response.text.trim() or s.web.uri raises a TypeError
FetchRaises(r) ==
    \/ r.text = <<>>
    \/ \E k \in 1..Len(CollectSources(r.candidates)) :
           CollectSources(r.candidates)[k].web = <<>>

TypeError == Err("Cannot read properties of undefined")

FallbackNotice ==
    ToSeq("Could not retrieve best practices. Proceeding with user feedback only.")

\* fetchBestPractices is called on its own
FetchStart ==
    /\ op = "fetchBestPractices" /\ pc = "start"
    /\ pc' = "fetch"
    /\ BeginRetry
    /\ UNCHANGED <<opVars, streamVars, refineVars, response, log, outVars, fmt>>

\* a refineResume that fetches the best practices whatever useBestPractices is
RefineStartAlwaysFetch ==
    /\ op = "refineResume" /\ pc = "start"
    /\ bestPracticesText' = <<>>
    /\ pc' = "fetch"
    /\ BeginRetry
    /\ UNCHANGED <<opVars, streamVars, fetched, sources, changelog, response,
                   log, outVars, fmt>>

\* refineResume is called: fetchBestPractices first when useBestPractices,
\* the streaming call at once otherwise
RefineStart ==
    /\ op = "refineResume" /\ pc = "start"
    /\ bestPracticesText' = <<>>
    /\ pc' = IF useBestPractices THEN "fetch" ELSE "open"
    /\ BeginRetry
    /\ UNCHANGED <<opVars, streamVars, fetched, sources, changelog, response,
                   log, outVars, fmt>>

\* the best-practices section of the prompt built by refineResumePrompt
bestPracticesSection(practicesText) ==
    IF Trim(practicesText) = <<>> THEN <<>>
    ELSE ToSeq("---\n**Resume Best Practices to Incorporate:**\n")
             \o practicesText \o ToSeq("\n---")

\* a refineResume that lets the failure of fetchBestPractices escape
RefineFetchRethrow ==
    /\ fetched' = "failed"
    /\ thrown' = <<GenericError(op)>>
    /\ pc' = "failed"
    /\ UNCHANGED <<retryVars, bestPracticesText, sources, log, underlying, result>>

\* the catch block around fetchBestPractices in refineResume, then the streaming call
RefineFetchCatch ==
    /\ fetched' = "failed"
    /\ bestPracticesText' = FallbackNotice
    /\ pc' = "open"
    /\ BeginRetry
    /\ UNCHANGED <<sources, log, outVars>>

\* a refineResume that does not hand the sources over when they arrive
AfterFetchLogNoSources(l) == l

\* the calls refineResume makes after a successful fetchBestPractices
AfterFetchLog(l) == Append(l, "onSources")

\* the service answers fetchBestPractices
FetchReturn(responses) ==
    /\ op \in {"fetchBestPractices", "refineResume"}
    /\ pc = "fetch" /\ rpc = "returned"
    /\ \E r \in responses :
        /\ response' = <<r>>
        /\ IF op = "fetchBestPractices"
           THEN /\ IF FetchRaises(r)
                   THEN /\ thrown' = <<TypeError>>
                        /\ pc' = "failed"
                        /\ UNCHANGED <<sources, result>>
                   ELSE /\ sources' = FilterSources(UniqueSources(CollectSources(r.candidates)))
                        /\ result' = <<Trim(r.text[1])>>
                        /\ pc' = "done"
                        /\ thrown' = thrown
                /\ UNCHANGED <<retryVars, bestPracticesText, fetched, log, underlying>>
           ELSE IF FetchRaises(r)
                THEN RefineFetchCatch
                ELSE /\ sources' = FilterSources(UniqueSources(CollectSources(r.candidates)))
                     /\ log' = AfterFetchLog(log)
                     /\ bestPracticesText' = Trim(r.text[1])
                     /\ fetched' = "ok"
                     /\ pc' = "open"
                     /\ BeginRetry
                     /\ UNCHANGED outVars
    /\ UNCHANGED <<opVars, streamVars, changelog, fmt>>

\* withRetry raised in fetchBestPractices
FetchFailed ==
    /\ op \in {"fetchBestPractices", "refineResume"}
    /\ pc = "fetch" /\ rpc = "thrown"
    /\ IF op = "fetchBestPractices"
       THEN /\ thrown' = lastError
            /\ pc' = "failed"
            /\ UNCHANGED <<retryVars, bestPracticesText, fetched, sources, log,
                           underlying, result>>
       ELSE RefineFetchCatch
    /\ UNCHANGED <<opVars, streamVars, changelog, response, fmt>>

(***************************************************************************)
(* preprocessText                                                          *)
(***************************************************************************)
MinPreprocessLength == 50

\* processedText || text, and the catch block for a response without text
PreprocessResult(t, r) ==
    IF r.text = <<>> THEN t
    ELSE LET processedText == Trim(r.text[1])
         IN  IF processedText # <<>> THEN processedText ELSE t

\* a short-text test on the length of the untrimmed text
IsShortTextUntrimmed(t) == Len(t) < MinPreprocessLength

\* text.trim().length < 50: the text is returned without a service call
IsShortText(t) == Len(Trim(t)) < MinPreprocessLength

\* preprocessText is called
PreprocessStart ==
    /\ op = "preprocessText" /\ pc = "start"
    /\ IF IsShortText(text)
       THEN /\ result' = <<text>>
            /\ pc' = "done"
            /\ UNCHANGED retryVars
       ELSE /\ pc' = "call"
            /\ BeginRetry
            /\ result' = result
    /\ UNCHANGED <<opVars, streamVars, refineVars, response, log, underlying,
                   thrown, fmt>>

\* the service answers preprocessText
PreprocessReturn(responses) ==
    /\ op = "preprocessText" /\ pc = "call" /\ rpc = "returned"
    /\ \E r \in responses :
        /\ response' = <<r>>
        /\ result' = <<PreprocessResult(text, r)>>
    /\ pc' = "done"
    /\ UNCHANGED <<opVars, retryVars, streamVars, refineVars, log, underlying,
                   thrown, fmt>>

\* a preprocessText without the catch block
PreprocessFailedRethrow ==
    /\ op = "preprocessText" /\ pc = "call" /\ rpc = "thrown"
    /\ underlying' = lastError
    /\ thrown' = lastError
    /\ pc' = "failed"
    /\ UNCHANGED <<opVars, retryVars, streamVars, refineVars, response, log,
                   result, fmt>>

\* withRetry raised in preprocessText: the catch block returns the original text
PreprocessFailed ==
    /\ op = "preprocessText" /\ pc = "call" /\ rpc = "thrown"
    /\ underlying' = lastError
    /\ result' = <<text>>
    /\ pc' = "done"
    /\ UNCHANGED <<opVars, retryVars, streamVars, refineVars, response, log,
                   thrown, fmt>>

(***************************************************************************)
(* App: the wizard that calls the operations                               *)
(***************************************************************************)
ConfidenceLevels == {"eager", "confident", "expert"}

\* the state of the App component after construction: apiKey is whether a key
\* is set, currentStep is 0-based, null is <<>> and a value v is <<v>>
AppStart ==
    [ apiKey |-> FALSE, history |-> <<"UPLOAD">>, currentStep |-> 0,
      resumeTexts |-> <<>>, draftResumes |-> <<>>, finalResume |-> <<>>,
      isLoading |-> FALSE, isRefining |-> FALSE, error |-> <<>>,
      lastFeedback |-> <<>>, selectedTone |-> "eager" ]

\* a Draft: text, and the optional sources and changelog
Draft(draftText) == [text |-> draftText, sources |-> <<>>, changelog |-> <<>>]

\* history[currentStep]
appState(s) == s.history[s.currentStep + 1]

\* the history and currentStep that the handlers of a render close over
Closure(s) == [history |-> s.history, currentStep |-> s.currentStep]

\* setStep of the render with closure c
setStep(s, c, newState) ==
    LET newHistory == Append(SubSeq(c.history, 1, c.currentStep + 1), newState)
    IN  [s EXCEPT !.history = newHistory, !.currentStep = Len(newHistory) - 1]

\* goBack of the render with closure c
goBack(s, c) ==
    IF c.currentStep > 0 THEN [s EXCEPT !.currentStep = c.currentStep - 1] ELSE s

\* goForward of the render with closure c
goForward(s, c) ==
    IF c.currentStep < Len(c.history) - 1
    THEN [s EXCEPT !.currentStep = c.currentStep + 1]
    ELSE s

handleError(s, errorMessage) ==
    [s EXCEPT !.error = <<errorMessage>>, !.isLoading = FALSE, !.isRefining = FALSE]

handleStartOver(s) ==
    [s EXCEPT !.history = <<"UPLOAD">>, !.currentStep = 0, !.resumeTexts = <<>>,
              !.draftResumes = <<>>, !.finalResume = <<>>, !.error = <<>>,
              !.isLoading = FALSE]

\* what renderContent shows
View(s) ==
    IF ~s.apiKey THEN "API_KEY"
    ELSE IF s.currentStep + 1 \in DOMAIN s.history THEN appState(s)
    ELSE "NONE"

\* the render that follows a state change: renderContent starts over when the
\* step is REVIEW without drafts or is no step; a ResumeReviewer that is not
\* shown is unmounted, and is mounted with the tone 'eager' selected
Render(s) ==
    LET r == IF View(s) = "NONE" \/ (View(s) = "REVIEW" /\ s.draftResumes = <<>>)
             THEN handleStartOver(s)
             ELSE s
    IN  IF View(r) = "REVIEW" THEN r ELSE [r EXCEPT !.selectedTone = "eager"]

\* { ...prev, [tone]: draft }
WithDraft(prev, tone, draft) ==
    <<(tone :> draft) @@ (IF prev = <<>> THEN <<>> ELSE prev[1])>>

\* prev?.[tone] is defined
HasDraft(prev, tone) == prev # <<>> /\ tone \in DOMAIN prev[1]

\* createStreamingCallback: the text of the draft after a chunk is appended
AppendChunk(draftText, chunk) == draftText \o chunk

\* the text of a draft reset to '' to which the chunks are appended in order
RECURSIVE StreamedText(_)
StreamedText(chunks) ==
    IF chunks = <<>> THEN <<>>
    ELSE AppendChunk(StreamedText(SubSeq(chunks, 1, Len(chunks) - 1)),
                     chunks[Len(chunks)])

\* createStreamingCallback(tone)(chunk)
createStreamingCallback(s, tone, chunk) ==
    LET prev == s.draftResumes
        currentDraft == IF HasDraft(prev, tone) THEN prev[1][tone] ELSE Draft(<<>>)
    IN  [s EXCEPT !.draftResumes =
            WithDraft(prev, tone,
                      [currentDraft EXCEPT !.text = AppendChunk(currentDraft.text, chunk)])]

\* onCompleteCallback of handleRefineResume: metadata.changelog is <<>> or <<text>>
onCompleteCallback(s, confidence, metadataChangelog) ==
    LET prev == s.draftResumes
    IN  IF ~HasDraft(prev, confidence) THEN s
        ELSE [s EXCEPT !.draftResumes =
                 WithDraft(prev, confidence,
                           [prev[1][confidence] EXCEPT !.changelog = metadataChangelog])]

\* the closure of a handler that reads no history or currentStep after its await
NoClosure == [history |-> <<>>, currentStep |-> 0]

\* a handler invocation suspended at an await
Task(kind, tone, at, c) ==
    [ kind |-> kind, tone |-> tone, pc |-> at,
      history |-> c.history, currentStep |-> c.currentStep ]

\* the operation of the service that a task is waiting for, "" if none
InFlight(task) ==
    IF task.pc # "stream" THEN ""
    ELSE IF task.kind = "generate" THEN "generateInitialResumeDraft"
    ELSE IF task.kind = "tone" THEN "changeResumeTone"
    ELSE "refineResume"

RemoveAt(seq, k) == SubSeq(seq, 1, k - 1) \o SubSeq(seq, k + 1, Len(seq))

\* setDraftResumes({ eager: draft }) of handleGenerate
DraftsOfGeneration(draft) == WithDraft(<<>>, "eager", draft)

\* a handleGenerate without the test for the key
handleGenerateAnyKey(s) ==
    setStep([s EXCEPT !.isLoading = TRUE, !.error = <<>>,
                      !.draftResumes = DraftsOfGeneration(Draft(<<>>))],
            Closure(s), "GENERATING")

\* handleGenerate up to its first await
handleGenerate(s) ==
    IF ~s.apiKey
    THEN handleError(s, ToSeq("API Key is not set. Please set it in the settings."))
    ELSE setStep([s EXCEPT !.isLoading = TRUE, !.error = <<>>,
                           !.draftResumes = DraftsOfGeneration(Draft(<<>>))],
                 Closure(s), "GENERATING")

\* handleGenerateTone gets as far as calling changeResumeTone
ToneRequestStarts(s, tone) ==
    /\ s.apiKey
    /\ ~(HasDraft(s.draftResumes, tone) \/ s.isLoading)
    /\ tone # "eager"
    /\ HasDraft(s.draftResumes, "eager")
    /\ s.draftResumes[1]["eager"].text # <<>>

\* a handleGenerateTone without the test for 'eager'
handleGenerateToneAnyTone(s, tone) ==
    IF ~s.apiKey THEN handleError(s, ToSeq("API Key is not set."))
    ELSE IF HasDraft(s.draftResumes, tone) \/ s.isLoading THEN s
    ELSE IF ~HasDraft(s.draftResumes, "eager") \/ s.draftResumes[1]["eager"].text = <<>>
    THEN handleError(s, ToSeq("Cannot change tone without a base resume. Please start over."))
    ELSE [s EXCEPT !.isLoading = TRUE, !.error = <<>>,
                   !.draftResumes = WithDraft(s.draftResumes, tone, Draft(<<>>))]

\* handleGenerateTone up to its first await
handleGenerateTone(s, tone) ==
    IF ~s.apiKey THEN handleError(s, ToSeq("API Key is not set."))
    ELSE IF HasDraft(s.draftResumes, tone) \/ s.isLoading THEN s
    ELSE IF tone = "eager" THEN s
    ELSE IF ~HasDraft(s.draftResumes, "eager") \/ s.draftResumes[1]["eager"].text = <<>>
    THEN handleError(s, ToSeq("Cannot change tone without a base resume. Please start over."))
    ELSE [s EXCEPT !.isLoading = TRUE, !.error = <<>>,
                   !.draftResumes = WithDraft(s.draftResumes, tone, Draft(<<>>))]

\* a handleRefineResume that leaves the text of the draft in place
handleRefineResumeKeepText(s, feedback, confidence, ubp) ==
    IF ~s.apiKey THEN handleError(s, ToSeq("API Key is not set."))
    ELSE LET initialDraftState ==
                 IF HasDraft(s.draftResumes, confidence)
                 THEN s.draftResumes[1][confidence] ELSE Draft(<<>>)
         IN  [s EXCEPT !.isLoading = TRUE, !.isRefining = TRUE, !.error = <<>>,
                       !.lastFeedback = feedback,
                       !.draftResumes =
                           WithDraft(s.draftResumes, confidence,
                               [ text |-> initialDraftState.text,
                                 sources |-> IF ubp THEN <<>> ELSE initialDraftState.sources,
                                 changelog |-> <<>> ])]

\* a handleRefineResume that clears the sources whatever useBestPractices is
handleRefineResumeNoSources(s, feedback, confidence, ubp) ==
    IF ~s.apiKey THEN handleError(s, ToSeq("API Key is not set."))
    ELSE [s EXCEPT !.isLoading = TRUE, !.isRefining = TRUE, !.error = <<>>,
                   !.lastFeedback = feedback,
                   !.draftResumes = WithDraft(s.draftResumes, confidence, Draft(<<>>))]

\* handleRefineResume up to its first await
handleRefineResume(s, feedback, confidence, ubp) ==
    IF ~s.apiKey THEN handleError(s, ToSeq("API Key is not set."))
    ELSE LET initialDraftState ==
                 IF HasDraft(s.draftResumes, confidence)
                 THEN s.draftResumes[1][confidence] ELSE Draft(<<>>)
         IN  [s EXCEPT !.isLoading = TRUE, !.isRefining = TRUE, !.error = <<>>,
                       !.lastFeedback = feedback,
                       !.draftResumes =
                           WithDraft(s.draftResumes, confidence,
                               [ text |-> <<>>,
                                 sources |-> IF ubp THEN <<>> ELSE initialDraftState.sources,
                                 changelog |-> <<>> ])]

\* everything the App actions leave alone
serviceVars ==
    <<op, pc, text, useBestPractices, retryVars, streamVars, refineVars,
      response, log, outVars, fmt>>

\* the state s is set, rendered, and the handler returns (the texts of
\* ResumeReviewer are inputs of the actions here)
AppStep(s, newTasks) ==
    /\ app' = Render(s)
    /\ tasks' = newTasks
    /\ UNCHANGED <<serviceVars, reviewer, uploader>>

\* ApiKeyManager saves a key, or the effect finds one in localStorage
KeySaved ==
    /\ op = "App" /\ ~app.apiKey
    /\ AppStep([app EXCEPT !.apiKey = TRUE], tasks)

\* ResumeUploader submits files: handleResumesUpload up to its await
ResumesUpload ==
    /\ op = "App" /\ View(app) = "UPLOAD" /\ ~app.isLoading
    /\ Len(tasks) < MaxTasks
    /\ AppStep([app EXCEPT !.isLoading = TRUE, !.error = <<>>],
               Append(tasks, Task("upload", "", "read", Closure(app))))

\* readFilesAsText resolves: the rest of handleResumesUpload
UploadRead ==
    /\ op = "App"
    /\ \E k \in 1..Len(tasks) :
        /\ tasks[k].kind = "upload"
        /\ LET read == setStep([app EXCEPT !.resumeTexts = <<"resume">>],
                               tasks[k], "JOB_DESCRIPTION")
           IN  AppStep([read EXCEPT !.isLoading = FALSE], RemoveAt(tasks, k))

\* JobDescriptionInput submits: handleGenerate up to the await of preprocessText
Generate ==
    /\ op = "App" /\ View(app) = "JOB_DESCRIPTION" /\ ~app.isLoading
    /\ Len(tasks) < MaxTasks
    /\ AppStep(handleGenerate(app),
               Append(tasks, Task("generate", "eager", "preprocess", Closure(app))))

\* preprocessText returns to handleGenerate / handleRefineResume, which calls
\* generateInitialResumeDraft / refineResume
PreprocessDone ==
    /\ op = "App"
    /\ \E k \in 1..Len(tasks) :
        /\ tasks[k].pc = "preprocess"
        /\ AppStep(app, [tasks EXCEPT ![k].pc = "stream"])

\* the Back button, and the Cancel button of GenerationLoader
GoBack ==
    /\ op = "App" /\ app.currentStep > 0
    /\ AppStep(goBack(app, Closure(app)), tasks)

\* the Forward button
GoForward ==
    /\ op = "App" /\ ~(app.currentStep >= Len(app.history) - 1)
    /\ AppStep(goForward(app, Closure(app)), tasks)

\* a tone tab of ResumeReviewer: handleToneChange, and handleGenerateTone up
\* to its await when there is no draft for the tone
ToneChange(tone) ==
    /\ op = "App" /\ View(app) = "REVIEW" /\ ~app.isLoading
    /\ LET selected == [app EXCEPT !.selectedTone = tone]
           requested == ~HasDraft(app.draftResumes, tone)
           starts == requested /\ ToneRequestStarts(app, tone)
       IN  /\ starts => Len(tasks) < MaxTasks
           /\ AppStep(IF requested THEN handleGenerateTone(selected, tone) ELSE selected,
                      IF starts
                      THEN Append(tasks, Task("tone", tone, "stream", NoClosure))
                      ELSE tasks)

\* the Refine button of ResumeReviewer: handleRefineResume up to its first await
Refine(feedback, ubp) ==
    /\ op = "App" /\ View(app) = "REVIEW" /\ ~app.isLoading
    /\ HasDraft(app.draftResumes, app.selectedTone)
    /\ Trim(feedback) # <<>> \/ ubp
    /\ Len(tasks) < MaxTasks
    /\ AppStep(handleRefineResume(app, feedback, app.selectedTone, ubp),
               Append(tasks, Task("refine", app.selectedTone,
                                  IF Trim(feedback) # <<>> THEN "preprocess" ELSE "stream",
                                  NoClosure)))

\* the Accept button of ResumeReviewer: handleAccept on the text of the text area
Accept(editableTexts) ==
    /\ op = "App" /\ View(app) = "REVIEW" /\ ~app.isLoading
    /\ HasDraft(app.draftResumes, app.selectedTone)
    /\ \E editableText \in editableTexts :
           AppStep(setStep([app EXCEPT !.finalResume = editableText], Closure(app), "FINAL"),
                   tasks)

\* the Start Over button of FinalResumeDisplay
StartOver ==
    /\ op = "App" /\ View(app) = "FINAL"
    /\ AppStep(handleStartOver(app), tasks)

\* the close button of ErrorDisplay
CloseError ==
    /\ op = "App" /\ app.error # <<>>
    /\ AppStep([app EXCEPT !.error = <<>>], tasks)

\* an operation in flight calls onChunk
Chunk(chunks) ==
    /\ op = "App"
    /\ \E k \in 1..Len(tasks), chunk \in chunks :
        /\ tasks[k].pc = "stream"
        /\ HasDraft(app.draftResumes, tasks[k].tone)
               => Len(app.draftResumes[1][tasks[k].tone].text) < MaxDraftLength
        /\ AppStep(createStreamingCallback(app, tasks[k].tone, chunk), tasks)

\* generateInitialResumeDraft returns: the rest of handleGenerate
GenerateReturn(results) ==
    /\ op = "App"
    /\ \E k \in 1..Len(tasks), draft \in results :
        /\ tasks[k].kind = "generate" /\ tasks[k].pc = "stream"
        /\ LET drafted == [app EXCEPT !.draftResumes = DraftsOfGeneration(draft)]
               review == setStep(drafted, tasks[k], "REVIEW")
           IN  AppStep([review EXCEPT !.isLoading = FALSE], RemoveAt(tasks, k))

\* a handleGenerateTone that keeps the streamed draft when changeResumeTone returns
ToneReturnKeepsStreamed(results) ==
    /\ op = "App"
    /\ \E k \in 1..Len(tasks) :
        /\ tasks[k].kind = "tone" /\ tasks[k].pc = "stream"
        /\ AppStep([app EXCEPT !.isLoading = FALSE], RemoveAt(tasks, k))

\* changeResumeTone returns: the rest of handleGenerateTone
ToneReturn(results) ==
    /\ op = "App"
    /\ \E k \in 1..Len(tasks), draft \in results :
        /\ tasks[k].kind = "tone" /\ tasks[k].pc = "stream"
        /\ AppStep([app EXCEPT !.draftResumes = WithDraft(app.draftResumes, tasks[k].tone, draft),
                               !.isLoading = FALSE],
                   RemoveAt(tasks, k))

\* refineResume calls onComplete and returns: the rest of handleRefineResume
RefineReturn(changelogs) ==
    /\ op = "App"
    /\ \E k \in 1..Len(tasks), metadataChangelog \in changelogs :
        /\ tasks[k].kind = "refine" /\ tasks[k].pc = "stream"
        /\ AppStep([onCompleteCallback(app, tasks[k].tone, metadataChangelog)
                        EXCEPT !.isLoading = FALSE, !.isRefining = FALSE],
                   RemoveAt(tasks, k))

\* readFilesAsText rejects: the catch and finally blocks of handleResumesUpload
UploadFailed(errorMessages) ==
    /\ op = "App"
    /\ \E k \in 1..Len(tasks), e \in errorMessages :
        /\ tasks[k].kind = "upload"
        /\ AppStep([handleError(app, e) EXCEPT !.isLoading = FALSE], RemoveAt(tasks, k))

\* generateInitialResumeDraft rejects: the catch and finally blocks of
\* handleGenerate, with the goBack of the render that created the handler
GenerateFailed(errorMessages) ==
    /\ op = "App"
    /\ \E k \in 1..Len(tasks), e \in errorMessages :
        /\ tasks[k].kind = "generate" /\ tasks[k].pc = "stream"
        /\ AppStep([goBack(handleError(app, e), tasks[k]) EXCEPT !.isLoading = FALSE],
                   RemoveAt(tasks, k))

\* changeResumeTone rejects: the catch and finally blocks of handleGenerateTone
ToneFailed(errorMessages) ==
    /\ op = "App"
    /\ \E k \in 1..Len(tasks), e \in errorMessages :
        /\ tasks[k].kind = "tone" /\ tasks[k].pc = "stream"
        /\ AppStep([handleError(app, e) EXCEPT !.isLoading = FALSE], RemoveAt(tasks, k))

\* refineResume rejects: the catch and finally blocks of handleRefineResume
RefineFailed(errorMessages) ==
    /\ op = "App"
    /\ \E k \in 1..Len(tasks), e \in errorMessages :
        /\ tasks[k].kind = "refine" /\ tasks[k].pc = "stream"
        /\ AppStep([handleError(app, e) EXCEPT !.isLoading = FALSE, !.isRefining = FALSE],
                   RemoveAt(tasks, k))

(***************************************************************************)
(* ResumeReviewer: the text area, the feedback and the undo of the review  *)
(* step, for a component that stays mounted                                *)
(***************************************************************************)
TONE_MAP ==
    [ eager |-> ToSeq("Eager Learner"), confident |-> ToSeq("Confident Professional"),
      expert |-> ToSeq("Seasoned Expert") ]

\* the useState values of ResumeReviewer; previousDraftText is <<>> for null
ReviewerStart ==
    [ editableText |-> <<>>, feedback |-> <<>>, useBestPractices |-> FALSE,
      previousDraftText |-> <<>> ]

\* draftResumes[selectedTone]: <<>> when undefined
currentDraft(s) ==
    IF HasDraft(s.draftResumes, s.selectedTone)
    THEN <<s.draftResumes[1][s.selectedTone]>> ELSE <<>>

\* the effect on [currentDraft, isLoading, selectedTone]
useEffect(r, s) ==
    LET draftText == IF currentDraft(s) = <<>> THEN <<>> ELSE currentDraft(s)[1].text
        isGeneratingNewTone == s.isLoading /\ draftText = <<>>
    IN  [r EXCEPT !.editableText =
            IF isGeneratingNewTone
            THEN ToSeq("Generating the '") \o TONE_MAP[s.selectedTone]
                     \o ToSeq("' version.\n\nPlease wait a moment...")
            ELSE draftText]

handleRefine(r) ==
    [r EXCEPT !.previousDraftText = <<r.editableText>>,
              !.useBestPractices = FALSE, !.feedback = <<>>]

handleToneChange(r) == [r EXCEPT !.previousDraftText = <<>>]

\* a handleUndo that keeps the text for another undo
handleUndoKeep(r) ==
    IF r.previousDraftText # <<>>
    THEN [r EXCEPT !.editableText = r.previousDraftText[1]]
    ELSE r

handleUndo(r) ==
    IF r.previousDraftText # <<>>
    THEN [r EXCEPT !.editableText = r.previousDraftText[1], !.previousDraftText = <<>>]
    ELSE r

\* the states r of the component and s of App are set and rendered; the effect
\* runs when one of its dependencies has changed
ReviewerStep(r, s, newTasks) ==
    /\ app' = s
    /\ reviewer' = IF <<currentDraft(s), s.isLoading, s.selectedTone>>
                        # <<currentDraft(app), app.isLoading, app.selectedTone>>
                   THEN useEffect(r, s) ELSE r
    /\ tasks' = newTasks
    /\ UNCHANGED <<serviceVars, uploader>>

\* the user types in the text area of the resume
ReviewerEdit(texts) ==
    /\ op = "ResumeReviewer" /\ ~app.isLoading
    /\ \E t \in texts : ReviewerStep([reviewer EXCEPT !.editableText = t], app, tasks)

\* the user types in the feedback field
ReviewerFeedback(feedbacks) ==
    /\ op = "ResumeReviewer" /\ ~app.isLoading
    /\ \E f \in feedbacks : ReviewerStep([reviewer EXCEPT !.feedback = f], app, tasks)

\* the Refine button: handleRefine, and handleRefineResume up to its first await
ReviewerRefine ==
    /\ op = "ResumeReviewer"
    /\ ~(app.isLoading \/ currentDraft(app) = <<>>
           \/ (Trim(reviewer.feedback) = <<>> /\ ~reviewer.useBestPractices))
    /\ Len(tasks) < MaxTasks
    /\ ReviewerStep(handleRefine(reviewer),
                    handleRefineResume(app, reviewer.feedback, app.selectedTone,
                                       reviewer.useBestPractices),
                    Append(tasks, Task("refine", app.selectedTone,
                                       IF Trim(reviewer.feedback) # <<>>
                                       THEN "preprocess" ELSE "stream",
                                       NoClosure)))

\* a tone tab: handleToneChange, and handleGenerateTone up to its await when
\* there is no draft for the tone
ReviewerToneChange(tone) ==
    /\ op = "ResumeReviewer" /\ ~app.isLoading
    /\ LET selected == [app EXCEPT !.selectedTone = tone]
           requested == ~HasDraft(app.draftResumes, tone)
           starts == requested /\ ToneRequestStarts(app, tone)
       IN  /\ starts => Len(tasks) < MaxTasks
           /\ ReviewerStep(handleToneChange(reviewer),
                           IF requested THEN handleGenerateTone(selected, tone) ELSE selected,
                           IF starts
                           THEN Append(tasks, Task("tone", tone, "stream", NoClosure))
                           ELSE tasks)

\* the Undo button, shown while previousDraftText is not null
ReviewerUndo ==
    /\ op = "ResumeReviewer" /\ ~app.isLoading
    /\ reviewer.previousDraftText # <<>>
    /\ ReviewerStep(handleUndo(reviewer), app, tasks)

\* preprocessText returns to handleRefineResume, which calls refineResume
ReviewerPreprocessDone ==
    /\ op = "ResumeReviewer"
    /\ \E k \in 1..Len(tasks) :
        /\ tasks[k].pc = "preprocess"
        /\ ReviewerStep(reviewer, app, [tasks EXCEPT ![k].pc = "stream"])

\* the operation in flight calls onChunk
ReviewerChunk(chunks) ==
    /\ op = "ResumeReviewer"
    /\ \E k \in 1..Len(tasks), chunk \in chunks :
        /\ tasks[k].pc = "stream"
        /\ Len(app.draftResumes[1][tasks[k].tone].text) < MaxDraftLength
        /\ ReviewerStep(reviewer, createStreamingCallback(app, tasks[k].tone, chunk), tasks)

\* changeResumeTone / refineResume settles: the rest of handleGenerateTone /
\* handleRefineResume, through the catch block when it rejects
ReviewerSettled(results, changelogs, errorMessages) ==
    /\ op = "ResumeReviewer"
    /\ \E k \in 1..Len(tasks) :
        /\ tasks[k].pc = "stream"
        /\ \E s \in
               { handleError(app, e) : e \in errorMessages }
               \cup (IF tasks[k].kind = "tone"
                     THEN { [app EXCEPT !.draftResumes =
                                WithDraft(app.draftResumes, tasks[k].tone, draft)] :
                              draft \in results }
                     ELSE { onCompleteCallback(app, tasks[k].tone, c) : c \in changelogs }) :
               ReviewerStep(reviewer, [s EXCEPT !.isLoading = FALSE, !.isRefining = FALSE],
                            RemoveAt(tasks, k))

(***************************************************************************)
(* ResumeUploader: the list of selected files; a file is its name          *)
(***************************************************************************)
VALID_EXTENSIONS == <<ToSeq("pdf"), ToSeq("docx"), ToSeq("txt"), ToSeq("md")>>
FILE_EXTENSIONS_STRING == ToSeq(".pdf, .docx, .txt, .md")
MAX_FILES == 10

\* String.prototype.toLowerCase
toLowerCase(s) ==
    [k \in 1..Len(s) |->
        IF \E n \in 1..26 : UpperCase[n] = s[k]
        THEN LowerCase[CHOOSE n \in 1..26 : UpperCase[n] = s[k]]
        ELSE s[k]]

\* file.name.split('.').pop()?.toLowerCase()
fileExtension(name) ==
    LET dots == {k \in 1..Len(name) : name[k] = "."}
    IN  toLowerCase(IF dots = {} THEN name ELSE SubSeq(name, MaxOf(dots) + 1, Len(name)))

\* fileExtension && VALID_EXTENSIONS.includes(fileExtension)
IsValidFile(name) ==
    /\ fileExtension(name) # <<>>
    /\ \E k \in 1..Len(VALID_EXTENSIONS) : VALID_EXTENSIONS[k] = fileExtension(name)

\* Array.prototype.join(', ')
RECURSIVE JoinNames(_)
JoinNames(names) ==
    IF names = <<>> THEN <<>>
    ELSE IF Len(names) = 1 THEN names[1]
    ELSE names[1] \o ToSeq(", ") \o JoinNames(Tail(names))

\* the useState values of ResumeUploader; uploadWarning is <<>> for null
UploaderStart == [files |-> <<>>, uploadWarning |-> <<>>]

\* a loop that adds a file whether or not its name is already selected
RECURSIVE AddFilesWithDuplicates(_, _)
AddFilesWithDuplicates(combined, validFilesToAdd) ==
    IF validFilesToAdd = <<>> THEN [files |-> combined, full |-> FALSE]
    ELSE IF Len(combined) >= MAX_FILES THEN [files |-> combined, full |-> TRUE]
    ELSE AddFilesWithDuplicates(Append(combined, Head(validFilesToAdd)),
                                Tail(validFilesToAdd))

\* the loop of the setFiles updater: full when it stops at MAX_FILES
RECURSIVE AddFiles(_, _)
AddFiles(combined, validFilesToAdd) ==
    IF validFilesToAdd = <<>> THEN [files |-> combined, full |-> FALSE]
    ELSE IF Len(combined) >= MAX_FILES THEN [files |-> combined, full |-> TRUE]
    ELSE IF \A k \in 1..Len(combined) : combined[k] # Head(validFilesToAdd)
    THEN AddFiles(Append(combined, Head(validFilesToAdd)), Tail(validFilesToAdd))
    ELSE AddFiles(combined, Tail(validFilesToAdd))

\* handleFiles(selectedFiles) for a FileList that is not null
handleFiles(u, selectedFiles) ==
    LET validFilesToAdd == SelectSeq(selectedFiles, IsValidFile)
        invalidFileNames == SelectSeq(selectedFiles, LAMBDA name : ~IsValidFile(name))
        ignored == IF invalidFileNames = <<>> THEN <<>>
                   ELSE <<ToSeq("Ignored unsupported files: ") \o JoinNames(invalidFileNames)
                              \o ToSeq(". Please use ") \o FILE_EXTENSIONS_STRING
                              \o ToSeq(".")>>
        added == AddFiles(u.files, validFilesToAdd)
        maximum == ToSeq("Maximum of 10 resumes reached.")
    IN  [ files |-> added.files,
          uploadWarning |->
              IF ~added.full THEN ignored
              ELSE IF ignored = <<>> THEN <<maximum>>
              ELSE <<ignored[1] \o ToSeq(" ") \o maximum>> ]

handleRemoveFile(u, fileName) ==
    [ files |-> SelectSeq(u.files, LAMBDA name : name # fileName),
      uploadWarning |-> <<>> ]

\* files are dropped or chosen: handleDrop / handleFileInputChange
HandleFiles(batches) ==
    /\ op = "ResumeUploader"
    /\ \E selectedFiles \in batches : uploader' = handleFiles(uploader, selectedFiles)
    /\ UNCHANGED <<serviceVars, app, tasks, reviewer>>

\* the remove button of a selected file
HandleRemoveFile(names) ==
    /\ op = "ResumeUploader"
    /\ \E k \in 1..Len(uploader.files) :
        /\ uploader.files[k] \in names
        /\ uploader' = handleRemoveFile(uploader, uploader.files[k])
    /\ UNCHANGED <<serviceVars, app, tasks, reviewer>>

(***************************************************************************)
(* Inputs of formatAIResponse: texts made of up to MaxFragments fragments  *)
(***************************************************************************)
Fragments ==
    { ToSeq("* "), ToSeq("- "), ToSeq("1. "), ToSeq("**"), ToSeq("*"),
      ToSeq("_"), ToSeq("a"), ToSeq(" "), ToSeq("\n") }

RECURSIVE TextsOf(_)
TextsOf(n) ==
    IF n = 0 THEN {<<>>}
    ELSE LET shorter == TextsOf(n - 1)
         IN  shorter \cup {t \o f : t \in shorter, f \in Fragments}

\* the state before operation o is called with the given arguments
Entry(o, t, ubp, f) ==
    /\ op = o /\ pc = "start" /\ text = t /\ useBestPractices = ubp
    /\ rpc = "idle" /\ i = 0 /\ lastError = <<>> /\ delay = 0 /\ calls = <<>>
    /\ fullRawText = <<>> /\ lastSent = <<>> /\ sent = <<>>
    /\ bestPracticesText = <<>> /\ fetched = "none" /\ sources = <<>>
    /\ changelog = <<>> /\ response = <<>> /\ log = <<>>
    /\ underlying = <<>> /\ thrown = <<>> /\ result = <<>>
    /\ fmt = f
    /\ app = AppStart /\ tasks = <<>> /\ reviewer = ReviewerStart
    /\ uploader = UploaderStart

\* texts with letters, and with a tab after the marker of an ordered list
ExampleTexts ==
    { ToSeq("**Bold** and _ital_ and * item"),
      ToSeq("**Bold** and _ital_ and\n* item"),
      ToSeq("1.\tfoo bar"),
      ToSeq("1.\tfoo"),
      ToSeq("intro\n12. foo bar") }

InitFormat ==
    \E t \in TextsOf(MaxFragments) \cup ExampleTexts :
        Entry("formatAIResponse", <<>>, FALSE, <<t>>)

\* one call of formatAIResponse, on the result of the call before
ApplyFormat ==
    /\ op = "formatAIResponse"
    /\ Len(fmt) < 3
    /\ fmt' = Append(fmt, formatAIResponse(fmt[Len(fmt)]))
    /\ UNCHANGED <<opVars, pc, retryVars, streamVars, refineVars, response, log, outVars>>

NextFormat == ApplyFormat

SpecFormat == InitFormat /\ [][NextFormat]_vars

InitRetry == Entry("withRetry", <<>>, FALSE, <<>>)

\* withRetry is called
RetryStart ==
    /\ op = "withRetry" /\ pc = "start"
    /\ pc' = "call"
    /\ BeginRetry
    /\ UNCHANGED <<opVars, streamVars, refineVars, response, log, outVars, fmt>>

NextRetry ==
    \/ RetryStart
    \/ RetryCallOk
    \/ RetryCallFail(ServiceErrors)
    \/ RetryWait

SpecRetry == InitRetry /\ [][NextRetry]_vars

(***************************************************************************)
(* The operations against a service that may fail                          *)
(***************************************************************************)
Rep(c, n) == [k \in 1..n |-> c]

PreprocessInputs ==
    { ToSeq("short text"),
      Rep("a", MinPreprocessLength - 1),
      Rep("a", MinPreprocessLength),
      <<" ">> \o Rep("a", MinPreprocessLength - 1) \o <<" ">>,
      <<" ">> \o Rep("a", MinPreprocessLength) \o <<"\n">> }

\* responses of generateContent to preprocessText: text undefined, empty, blank, or a text
PreprocessResponses ==
    { [text |-> <<>>],
      [text |-> << <<>> >>],
      [text |-> <<ToSeq("  ")>>],
      [text |-> <<ToSeq(" cleaned text ")>>] }

FewFetchResponses ==
    { [text |-> <<ToSeq(" tips ")>>, candidates |-> << <<Source("u1", "A")>> >>],
      [text |-> <<ToSeq("tips")>>, candidates |-> << <<NoWebSource>> >>] }

FewChunks == { <<>>, ToSeq("a"), ToSeq(" ") }

\* a rate-limit error, a resource-exhaustion error and a non-retryable error
FewErrors ==
    { Err("got status: 429 Too Many Requests"),
      Err("RESOURCE_EXHAUSTED"),
      Err("fetch failed") }

InitOps ==
    \/ \E t \in PreprocessInputs : Entry("preprocessText", t, FALSE, <<>>)
    \/ \E o \in {"generateInitialResumeDraft", "changeResumeTone"} :
           Entry(o, <<>>, FALSE, <<>>)
    \/ \E ubp \in BOOLEAN : Entry("refineResume", <<>>, ubp, <<>>)

NextOps ==
    \/ PreprocessStart
    \/ PreprocessReturn(PreprocessResponses)
    \/ PreprocessFailed
    \/ StreamOpStart
    \/ RefineStart
    \/ RetryCallOk
    \/ RetryCallFail(FewErrors)
    \/ RetryWait
    \/ OpenFailed
    \/ FetchReturn(FewFetchResponses)
    \/ FetchFailed
    \/ StreamChunk(FewChunks)
    \/ StreamError(FewErrors)
    \/ StreamEnd
    \/ RefineEnd

SpecOps == InitOps /\ [][NextOps]_vars

(***************************************************************************)
(* The streaming loops over every stream of up to MaxIncrements increments *)
(* (the service does not fail)                                             *)
(***************************************************************************)
ManyChunks ==
    { <<>>, ToSeq("a"), ToSeq(" "), ToSeq("\n"), ToSeq("*"), ToSeq("**"),
      ToSeq("_"), ToSeq("- "), ToSeq("---CHANGE"), ToSeq("LOG---"),
      ToSeq("---CHANGELOG---") }

OneFetchResponse ==
    { [text |-> <<ToSeq("tips")>>, candidates |-> << <<Source("u1", "A")>> >>] }

InitReconcile ==
    \/ \E o \in {"generateInitialResumeDraft", "changeResumeTone"} :
           Entry(o, <<>>, FALSE, <<>>)
    \/ \E ubp \in BOOLEAN : Entry("refineResume", <<>>, ubp, <<>>)

NextReconcile ==
    \/ StreamOpStart
    \/ RefineStart
    \/ RetryCallOk
    \/ FetchReturn(OneFetchResponse)
    \/ StreamChunk(ManyChunks)
    \/ StreamEnd
    \/ RefineEnd

SpecReconcile == InitReconcile /\ [][NextReconcile]_vars

(***************************************************************************)
(* fetchBestPractices over every list of up to MaxSources grounding chunks *)
(***************************************************************************)
SomeSources ==
    { Source("u1", "A"), Source("u1", "B"), Source("u2", "A"), Source("", "A"),
      NoWebSource }

RECURSIVE SourceLists(_)
SourceLists(n) ==
    IF n = 0 THEN {<<>>}
    ELSE LET shorter == SourceLists(n - 1)
         IN  shorter \cup {Append(l, x) : l \in shorter, x \in SomeSources}

\* the grounding chunks in one candidate, or spread over two
ManyFetchResponses ==
    LET lists == SourceLists(MaxSources)
    IN  {[text |-> <<ToSeq(" tips ")>>, candidates |-> <<l>>] : l \in lists}
        \cup {[text |-> <<ToSeq("tips")>>,
               candidates |-> <<SubSeq(l, 1, 1), SubSeq(l, 2, Len(l))>>] :
                  l \in {x \in lists : Len(x) >= 2}}
        \cup {[text |-> <<>>, candidates |-> <<>>]}

InitSources == Entry("fetchBestPractices", <<>>, FALSE, <<>>)

NextSources ==
    \/ FetchStart
    \/ RetryCallOk
    \/ FetchReturn(ManyFetchResponses)

SpecSources == InitSources /\ [][NextSources]_vars

(***************************************************************************)
(* The wizard under every sequence of user actions, with up to MaxTasks    *)
(* handler invocations suspended at a time                                 *)
(***************************************************************************)
AppChunks == { ToSeq("a") }

AppResults == { Draft(ToSeq("b")) }

\* metadata.changelog
AppChangelogs == { <<ToSeq("c")>> }

\* the tone tabs clicked
AppTones == {"eager", "confident"}

\* the feedback typed in ResumeReviewer
Feedbacks == { ToSeq("f") }

\* the text of the text area of ResumeReviewer when the draft is accepted
EditableTexts == { ToSeq("b") }

InitApp == Entry("App", <<>>, FALSE, <<>>)

\* the service does not fail and no best practices are asked for
NextApp ==
    \/ KeySaved
    \/ ResumesUpload
    \/ UploadRead
    \/ Generate
    \/ PreprocessDone
    \/ GoBack
    \/ GoForward
    \/ \E tone \in AppTones : ToneChange(tone)
    \/ \E feedback \in Feedbacks : Refine(feedback, FALSE)
    \/ Accept(EditableTexts)
    \/ StartOver
    \/ CloseError
    \/ Chunk(AppChunks)
    \/ GenerateReturn(AppResults)
    \/ ToneReturn(AppResults)
    \/ RefineReturn(AppChangelogs)

SpecApp == InitApp /\ [][NextApp]_vars

(***************************************************************************)
(* The wizard with a service that can fail: uploads, generations and tone  *)
(* changes that stream and then complete or reject                         *)
(***************************************************************************)
\* the messages of the errors the operations raise to the handlers
FailureMessages ==
    { getErrorMessage(GenericError("generateInitialResumeDraft")),
      getErrorMessage(ServiceBusyError("changeResumeTone")) }

NextAppFailures ==
    \/ KeySaved
    \/ ResumesUpload
    \/ UploadRead
    \/ UploadFailed(FailureMessages)
    \/ Generate
    \/ PreprocessDone
    \/ GoBack
    \/ GoForward
    \/ \E tone \in AppTones : ToneChange(tone)
    \/ Accept(EditableTexts)
    \/ StartOver
    \/ Chunk(AppChunks)
    \/ GenerateReturn(AppResults)
    \/ GenerateFailed(FailureMessages)
    \/ ToneReturn(AppResults)
    \/ ToneFailed(FailureMessages)

SpecAppFailures == InitApp /\ [][NextAppFailures]_vars

(***************************************************************************)
(* The handlers of App called directly, whatever the screen shows, in      *)
(* every state of the component drawn from HandlerStates                   *)
(***************************************************************************)
\* a draft as a refinement with best practices leaves it: with sources and a
\* changelog
RefinedDraft ==
    [ text |-> ToSeq("b"), sources |-> << <<Source("u1", "A")>> >>,
      changelog |-> <<ToSeq("c")>> ]

\* states of the component: with and without a key, at each step of a history
HandlerStates ==
    { [AppStart EXCEPT !.apiKey = key, !.history = h[1], !.currentStep = h[2],
                       !.draftResumes = d, !.isLoading = l] :
        key \in BOOLEAN,
        h \in { <<h0, c>> \in
                   { <<"UPLOAD">>, <<"UPLOAD", "JOB_DESCRIPTION">>,
                     <<"UPLOAD", "JOB_DESCRIPTION", "GENERATING">>,
                     <<"UPLOAD", "JOB_DESCRIPTION", "REVIEW">> } \X (0..2) :
                   c < Len(h0) },
        d \in { <<>>, DraftsOfGeneration(Draft(ToSeq("b"))),
                WithDraft(DraftsOfGeneration(Draft(ToSeq("b"))), "confident",
                          Draft(ToSeq("b"))),
                WithDraft(DraftsOfGeneration(RefinedDraft), "confident",
                          Draft(ToSeq("d"))) },
        l \in BOOLEAN }

InitHandlers ==
    /\ op = "handlers" /\ pc = "start" /\ text = <<>> /\ useBestPractices = FALSE
    /\ rpc = "idle" /\ i = 0 /\ lastError = <<>> /\ delay = 0 /\ calls = <<>>
    /\ fullRawText = <<>> /\ lastSent = <<>> /\ sent = <<>>
    /\ bestPracticesText = <<>> /\ fetched = "none" /\ sources = <<>>
    /\ changelog = <<>> /\ response = <<>> /\ log = <<>>
    /\ underlying = <<>> /\ thrown = <<>> /\ result = <<>>
    /\ fmt = <<>>
    /\ app \in HandlerStates /\ tasks = <<>> /\ reviewer = ReviewerStart
    /\ uploader = UploaderStart

\* handleGenerate(jd) is called: it runs up to the await of preprocessText, or returns
CallGenerate ==
    /\ op = "handlers" /\ Len(tasks) < MaxTasks
    /\ AppStep(handleGenerate(app),
               IF app.apiKey
               THEN Append(tasks, Task("generate", "eager", "preprocess", Closure(app)))
               ELSE tasks)

\* handleGenerateTone(tone) is called: it runs up to the await of changeResumeTone, or returns
CallGenerateTone(tone) ==
    /\ op = "handlers" /\ Len(tasks) < MaxTasks
    /\ AppStep(handleGenerateTone(app, tone),
               IF ToneRequestStarts(app, tone)
               THEN Append(tasks, Task("tone", tone, "stream", NoClosure))
               ELSE tasks)

\* handleRefineResume(draftToRefine, feedback, confidence, useBestPractices) is
\* called: it runs up to its first await, or returns
CallRefine(feedback, confidence, ubp) ==
    /\ op = "handlers" /\ Len(tasks) < MaxTasks
    /\ AppStep(handleRefineResume(app, feedback, confidence, ubp),
               IF app.apiKey
               THEN Append(tasks, Task("refine", confidence,
                                       IF Trim(feedback) # <<>> THEN "preprocess" ELSE "stream",
                                       NoClosure))
               ELSE tasks)

NextHandlers ==
    \/ CallGenerate
    \/ \E tone \in ConfidenceLevels : CallGenerateTone(tone)
    \/ \E feedback \in Feedbacks \cup {<<>>}, confidence \in AppTones, ubp \in BOOLEAN :
           CallRefine(feedback, confidence, ubp)

SpecHandlers == InitHandlers /\ [][NextHandlers]_vars

(***************************************************************************)
(* ResumeReviewer on the review step, from the moment it is mounted with   *)
(* the generated draft                                                     *)
(***************************************************************************)
\* what the user types in the text area
TypedTexts == { ToSeq("x") }

\* the messages of the errors of changeResumeTone and refineResume
AppErrors == { getErrorMessage(GenericError("refineResume")) }

InitReviewer ==
    /\ op = "ResumeReviewer" /\ pc = "start" /\ text = <<>> /\ useBestPractices = FALSE
    /\ rpc = "idle" /\ i = 0 /\ lastError = <<>> /\ delay = 0 /\ calls = <<>>
    /\ fullRawText = <<>> /\ lastSent = <<>> /\ sent = <<>>
    /\ bestPracticesText = <<>> /\ fetched = "none" /\ sources = <<>>
    /\ changelog = <<>> /\ response = <<>> /\ log = <<>>
    /\ underlying = <<>> /\ thrown = <<>> /\ result = <<>>
    /\ fmt = <<>>
    /\ app = [AppStart EXCEPT !.apiKey = TRUE,
                              !.history = <<"UPLOAD", "JOB_DESCRIPTION", "REVIEW">>,
                              !.currentStep = 2, !.resumeTexts = <<"resume">>,
                              !.draftResumes = DraftsOfGeneration(Draft(ToSeq("b")))]
    /\ tasks = <<>>
    /\ reviewer = useEffect(ReviewerStart, app)
    /\ uploader = UploaderStart

NextReviewer ==
    \/ ReviewerEdit(TypedTexts)
    \/ ReviewerFeedback(Feedbacks \cup {<<>>})
    \/ ReviewerRefine
    \/ \E tone \in AppTones : ReviewerToneChange(tone)
    \/ ReviewerUndo
    \/ ReviewerPreprocessDone
    \/ ReviewerChunk(AppChunks)
    \/ ReviewerSettled(AppResults, AppChangelogs, AppErrors)

SpecReviewer == InitReviewer /\ [][NextReviewer]_vars

(***************************************************************************)
(* ResumeUploader under every sequence of selections and removals          *)
(***************************************************************************)
\* the FileLists dropped or chosen: nine resumes; two more and an executable;
\* names without a dot, with two dots, with an empty last part, and names
\* already selected; a name twice in one selection
FileLists ==
    { << ToSeq("r1.pdf"), ToSeq("r2.docx"), ToSeq("r3.txt"), ToSeq("r4.md"),
         ToSeq("r5.PDF"), ToSeq("r6.Docx"), ToSeq("r7.pdf"), ToSeq("r8.pdf"),
         ToSeq("r9.pdf") >>,
      << ToSeq("s1.pdf"), ToSeq("virus.exe"), ToSeq("s2.txt"), ToSeq("r1.pdf") >>,
      << ToSeq("notes"), ToSeq("cv.tar.md"), ToSeq("cv."), ToSeq("r1.pdf"),
         ToSeq("cv.pdf.exe"), ToSeq("md") >>,
      << ToSeq("t1.txt"), ToSeq("t1.txt"), ToSeq("T1.txt") >> }

\* the files whose remove button is clicked
RemovedNames == { ToSeq("r1.pdf"), ToSeq("s1.pdf"), ToSeq("t1.txt") }

InitUploader ==
    /\ op = "ResumeUploader" /\ pc = "start" /\ text = <<>> /\ useBestPractices = FALSE
    /\ rpc = "idle" /\ i = 0 /\ lastError = <<>> /\ delay = 0 /\ calls = <<>>
    /\ fullRawText = <<>> /\ lastSent = <<>> /\ sent = <<>>
    /\ bestPracticesText = <<>> /\ fetched = "none" /\ sources = <<>>
    /\ changelog = <<>> /\ response = <<>> /\ log = <<>>
    /\ underlying = <<>> /\ thrown = <<>> /\ result = <<>>
    /\ fmt = <<>>
    /\ app = [AppStart EXCEPT !.apiKey = TRUE]
    /\ tasks = <<>> /\ reviewer = ReviewerStart
    /\ uploader = UploaderStart

NextUploader ==
    \/ HandleFiles(FileLists)
    \/ HandleRemoveFile(RemovedNames)

SpecUploader == InitUploader /\ [][NextUploader]_vars

(***************************************************************************)
(* Claims                                                                  *)
(***************************************************************************)
\* C3: withRetry makes between 1 and MAX_RETRIES attempts; when every attempt
\* fails with a retryable error it makes exactly MAX_RETRIES attempts and then
\* raises; when the first attempt fails with a non-retryable error it makes
\* exactly 1 attempt.
C3_RetryAttemptCount ==
    op = "withRetry" =>
        /\ Len(calls) <= MAX_RETRIES
        /\ rpc \in {"returned", "thrown"} => Len(calls) >= 1
        /\ (Len(calls) = MAX_RETRIES) => rpc \in {"returned", "thrown"}
        /\ (rpc = "thrown" /\ \A k \in 1..Len(calls) : calls[k] = "retryable")
               => Len(calls) = MAX_RETRIES
        /\ (Len(calls) >= 1 /\ calls[1] = "fatal")
               => (Len(calls) = 1 /\ rpc = "thrown")

\* withRetry has raised after MAX_RETRIES attempts that all failed with a retryable error
C3_Witness ==
    /\ op = "withRetry" /\ rpc = "thrown"
    /\ Len(calls) = MAX_RETRIES
    /\ \A k \in 1..Len(calls) : calls[k] = "retryable"

\* the concatenation of a sequence of texts
RECURSIVE Flatten(_)
Flatten(texts) ==
    IF texts = <<>> THEN <<>> ELSE Head(texts) \o Flatten(Tail(texts))

\* C1: when generateInitialResumeDraft / changeResumeTone returns, the
\* concatenation of the strings passed to onChunk is the returned text,
\* formatAIResponse(trim(full raw text)).
C1_SuffixReconstruction ==
    (op \in {"generateInitialResumeDraft", "changeResumeTone"} /\ pc = "done")
        => Flatten(sent) = result[1]

\* the capital letters, which the delimiter is made of
DelimiterLetters == {"C", "H", "A", "N", "G", "E", "L", "O"}

HasDelimiterLetter(s) == \E n \in 1..Len(s) : s[n] \in DelimiterLetters

\* C2: no string passed to onChunk by refineResume holds a part of the
\* delimiter (a partially received one included) or text that follows it: when
\* the text before the delimiter of the response has no capital letter, no
\* chunk has one.
C2_DelimiterWithheld ==
    ( /\ op = "refineResume"
      /\ Includes(fullRawText, changelogDelimiter)
      /\ ~HasDelimiterLetter(BeforeDelimiter(fullRawText)) )
        => \A k \in 1..Len(sent) : ~HasDelimiterLetter(sent[k])

\* C4: formatAIResponse is idempotent: formatting a formatted text changes nothing
C4_Idempotent == Len(fmt) = 3 => fmt[3] = fmt[2]

\* the grounding chunks collected from the response of fetchBestPractices
Collected == CollectSources(response[1].candidates)

\* the entries of the returned sources for uri u
EntriesFor(u) == {n \in 1..Len(sources) : sources[n].web[1].uri = u}

\* the positions in the collected chunks of a uri listed twice with different titles
Retitled ==
    {k \in 1..Len(Collected) :
        \E j \in 1..Len(Collected) :
            /\ Collected[j].web[1].uri = Collected[k].web[1].uri
            /\ Collected[j].web[1].title # Collected[k].web[1].title}

FirstOf(k) ==
    MinOf({j \in 1..Len(Collected) : Collected[j].web[1].uri = Collected[k].web[1].uri})

LastOf(k) ==
    MaxOf({j \in 1..Len(Collected) : Collected[j].web[1].uri = Collected[k].web[1].uri})

\* the distinct non-empty uris whose first occurrence is at or before position k
RankOf(k) ==
    Cardinality({Collected[j].web[1].uri : j \in {x \in 1..k : Collected[x].web[1].uri # ""}})

\* C5 as stated: a uri listed twice with different titles has exactly one
\* entry in the returned sources, at the position of its first occurrence,
\* with the title of its first occurrence.
C5_FirstSeenTitle ==
    (op = "fetchBestPractices" /\ pc = "done") =>
        \A k \in Retitled :
            /\ Cardinality(EntriesFor(Collected[k].web[1].uri)) = 1
            /\ \A n \in EntriesFor(Collected[k].web[1].uri) :
                   /\ n = RankOf(FirstOf(k))
                   /\ sources[n].web[1].title = Collected[FirstOf(k)].web[1].title

\* C5 amended: a non-empty uri listed twice with different titles has exactly
\* one entry in the returned sources, at the position of its first occurrence
\* among the distinct non-empty uris, with the title of its last occurrence.
C5_LastSeenTitle ==
    (op = "fetchBestPractices" /\ pc = "done") =>
        \A k \in Retitled :
            Collected[k].web[1].uri # "" =>
                /\ Cardinality(EntriesFor(Collected[k].web[1].uri)) = 1
                /\ \A n \in EntriesFor(Collected[k].web[1].uri) :
                       /\ n = RankOf(FirstOf(k))
                       /\ sources[n] = Collected[LastOf(k)]

\* fetchBestPractices has returned for chunks that list u1 with title A, then
\* another uri, then u1 with title B
C5_Witness ==
    /\ op = "fetchBestPractices" /\ pc = "done"
    /\ Len(Collected) = 3
    /\ Collected[1] = Source("u1", "A")
    /\ Collected[2] = Source("u2", "A")
    /\ Collected[3] = Source("u1", "B")

\* the number of times event e is in the log
Count(e) == Len(SelectSeq(log, LAMBDA x : x = e))

\* C6: in refineResume with useBestPractices and a successful fetch, onSources
\* is called exactly once, before the streaming call is made and before any
\* onChunk or onComplete call.
C6_SourcesBeforeStreaming ==
    (op = "refineResume" /\ useBestPractices /\ fetched = "ok") =>
        /\ Count("onSources") = 1
        /\ \A k \in 1..Len(log) :
               log[k] \in {"generateContentStream", "chunk", "onChunk", "onComplete"}
                   => \E j \in 1..(k - 1) : log[j] = "onSources"

\* refineResume has completed after a successful fetch and at least one onChunk
C6_Witness ==
    /\ op = "refineResume" /\ useBestPractices /\ fetched = "ok"
    /\ pc = "done"
    /\ Count("onChunk") >= 1
    /\ Count("onComplete") = 1

\* C7: when the stream ends with an empty final text, the error that reaches
\* the caller is the Empty-Response error.
C7_EmptyResponseDistinct ==
    ( /\ op \in {"generateInitialResumeDraft", "changeResumeTone"}
      /\ pc = "failed"
      /\ underlying = <<EmptyResponseError(op)>> )
        => thrown = <<EmptyResponseError(op)>>

\* C8: every operation raises Service-Busy exactly for the messages for which
\* generateInitialResumeDraft does (429 or RESOURCE_EXHAUSTED), and its generic
\* failure otherwise.
C8_SameTaxonomy ==
    (op \in StreamingOps /\ pc = "failed") =>
        LET errorMessage == getErrorMessage(underlying[1])
            busy == \/ Includes(errorMessage, ToSeq("429"))
                    \/ Includes(toUpperCase(errorMessage), ToSeq("RESOURCE_EXHAUSTED"))
        IN  thrown = <<IF busy THEN ServiceBusyError(op) ELSE GenericError(op)>>

\* C9: an operation fails with Service-Busy only after withRetry has made all
\* MAX_RETRIES attempts.
C9_BusyOnlyAfterRetries ==
    (op \in StreamingOps /\ pc = "failed" /\ thrown = <<ServiceBusyError(op)>>)
        => Len(calls) = MAX_RETRIES

\* the service call of preprocessText failed, or returned no text or blank text
PreprocessCallUseless ==
    \/ rpc = "thrown"
    \/ /\ rpc = "returned" /\ response # <<>>
       /\ (response[1].text = <<>> \/ Trim(response[1].text[1]) = <<>>)

\* C10: preprocessText never raises; when the service call fails or returns
\* empty text it returns the original text.
C10_PreprocessBestEffort ==
    op = "preprocessText" =>
        /\ pc # "failed"
        /\ thrown = <<>>
        /\ (pc = "done" /\ PreprocessCallUseless) => result = <<text>>

\* preprocessText has returned the original text after withRetry gave up
C10_Witness ==
    /\ op = "preprocessText" /\ pc = "done"
    /\ rpc = "thrown" /\ Len(calls) = MAX_RETRIES
    /\ result = <<text>>

\* C11: for a text whose trimmed length is below 50, preprocessText returns the
\* input unchanged (untrimmed) and makes no service call; for a trimmed length
\* of 50 or more it has made at least one service call when it returns.
C11_PreprocessShortCircuit ==
    (op = "preprocessText" /\ pc # "start") =>
        IF Len(Trim(text)) < 50
        THEN pc = "done" /\ result = <<text>> /\ log = <<>> /\ calls = <<>>
        ELSE pc = "done" => (Count("generateContent") >= 1 /\ Len(calls) >= 1)

\* preprocessText has returned a padded text of trimmed length 49 as it was,
\* without a service call
C11_Witness ==
    /\ op = "preprocessText" /\ pc = "done"
    /\ Len(text) > Len(Trim(text)) /\ Len(Trim(text)) = 49
    /\ result = <<text>> /\ log = <<>>

\* preprocessText has returned after a service call for a text of trimmed length 50
C11_WitnessLong ==
    /\ op = "preprocessText" /\ pc = "done"
    /\ Len(Trim(text)) = 50
    /\ Count("generateContent") >= 1

\* C13: in refineResume with useBestPractices, when fetchBestPractices has
\* failed the operation goes on: onSources is never called, the prompt carries
\* the fallback notice as its best-practices content, and the streaming call
\* is made before the operation completes or fails.
C13_FetchFailureSwallowed ==
    (op = "refineResume" /\ useBestPractices /\ fetched = "failed") =>
        /\ Count("onSources") = 0
        /\ bestPracticesText = FallbackNotice
        /\ bestPracticesSection(bestPracticesText)
               = ToSeq("---\n**Resume Best Practices to Incorporate:**\n")
                     \o FallbackNotice \o ToSeq("\n---")
        /\ pc \in {"open", "done", "failed"}
        /\ (pc = "open" /\ rpc = "call" /\ calls = <<>>)
               \/ Count("generateContentStream") >= 1

\* refineResume has completed with streamed text after fetchBestPractices
\* failed on every attempt
C13_Witness ==
    /\ op = "refineResume" /\ useBestPractices /\ fetched = "failed"
    /\ Count("generateContent") = MAX_RETRIES
    /\ pc = "done"
    /\ Count("onChunk") >= 1 /\ Count("onComplete") = 1

\* C14: when the service has answered fetchBestPractices with a text, the fetch
\* returns; no two returned sources share a uri, every returned source has a
\* non-empty uri, and a chunk with an empty uri or without a web field is
\* dropped rather than making the fetch fail.
C14_SourcesUniqueWellFormed ==
    ( /\ op = "fetchBestPractices" /\ pc \in {"done", "failed"}
      /\ rpc = "returned" /\ response[1].text # <<>> ) =>
        /\ pc = "done"
        /\ \A n \in 1..Len(sources) :
               /\ sources[n].web # <<>>
               /\ sources[n].web[1].uri # ""
               /\ \A k \in 1..Len(sources) :
                      sources[k].web[1].uri = sources[n].web[1].uri => k = n

\* C16: withRetry raises at once (no wait, no further attempt) on a
\* non-retryable error and on the failure of attempt MAX_RETRIES; the error it
\* raises is the error of the last attempt made; an attempt that succeeds is
\* the last one and withRetry returns.
C16_RetryErrorPropagation ==
    (op = "withRetry" /\ calls # <<>>) =>
        LET last == calls[Len(calls)]
        IN  /\ (last = "fatal" \/ (last = "retryable" /\ Len(calls) = 7))
                   => (rpc = "thrown" /\ delay = 0)
            /\ rpc = "thrown" =>
                   /\ thrown = lastError /\ thrown # <<>>
                   /\ isRetryableError(getErrorMessage(thrown[1])) <=> (last = "retryable")
            /\ \A k \in 1..Len(calls) :
                   calls[k] = "ok" => (k = Len(calls) /\ rpc = "returned" /\ thrown = <<>>)
            /\ \A k \in 1..(Len(calls) - 1) : calls[k] = "retryable"

\* withRetry has raised a non-retryable error on its third attempt, after two
\* retryable ones
C16_Witness ==
    /\ op = "withRetry" /\ rpc = "thrown"
    /\ calls = <<"retryable", "retryable", "fatal">>
    /\ thrown = <<Err("fetch failed")>>

\* the base delays of the claimed schedule, by 0-based index of the failed attempt
C17_Schedule == <<2000, 4000, 8000, 16000, 30000, 30000>>

\* C17: the wait that follows failed attempt i (0-based, i in 0..5) lies in
\* [base, base + 1000) ms for the base delays 2000, 4000, 8000, 16000, 30000,
\* 30000; at most 6 waits occur in one withRetry invocation and no wait
\* follows the final attempt.
C17_BackoffSchedule ==
    op = "withRetry" =>
        /\ i \in 0..6
        /\ rpc = "wait" =>
               /\ i \in 0..5
               /\ Len(calls) = i + 1
               /\ delay >= C17_Schedule[i + 1]
               /\ delay < C17_Schedule[i + 1] + 1000
        /\ rpc # "wait" => delay = 0
        /\ rpc \in {"returned", "thrown"} => Len(calls) = i + 1

\* withRetry waits for the sixth time, 30999 ms after its sixth failed attempt
C17_Witness ==
    /\ op = "withRetry" /\ rpc = "wait"
    /\ i = 5 /\ Len(calls) = 6
    /\ delay = 30999

\* C15: at every point of the streaming loop of generateInitialResumeDraft /
\* changeResumeTone, the length recorded as already emitted
\* (lastSentFormattedText.length) is at most the length of
\* formatAIResponse(fullRawText) for the raw text accumulated so far.
C15_EmittedLength ==
    ( /\ op \in {"generateInitialResumeDraft", "changeResumeTone"}
      /\ pc = "open" /\ rpc = "returned" )
        => Len(lastSent) <= Len(formatAIResponse(fullRawText))

\* the changelog passed to onComplete is as C12 says: formatAIResponse of what
\* follows the first delimiter of the trimmed raw response, undefined without one
C12_ChangelogPart ==
    (op = "refineResume" /\ pc = "done") =>
        LET fullText == Trim(fullRawText)
        IN  /\ Count("onComplete") = 1
            /\ changelog[1].defined = Includes(fullText, changelogDelimiter)
            /\ changelog[1].defined =>
                   changelog[1].text = formatAIResponse(AfterDelimiter(fullText))

\* C12: at the end of the stream of a successful refineResume, onComplete gets
\* as changelog formatAIResponse of what follows the first delimiter of the
\* trimmed raw response (undefined without a delimiter), and the text the
\* caller holds for the draft, the chunks appended to '', is formatAIResponse
\* of the part before the delimiter.
C12_RefineCompletionSplit ==
    (op = "refineResume" /\ pc = "done") =>
        LET fullText == Trim(fullRawText)
        IN  /\ C12_ChangelogPart
            /\ StreamedText(sent) = formatAIResponse(ResumePart(op, fullText))

\* the handler invocations that wait for a streaming operation of the service
OperationsInFlight == {k \in 1..Len(tasks) : InFlight(tasks[k]) # ""}

\* C18: whatever the user does (Back, Forward and Start Over while an
\* operation is running included), at most one of generateInitialResumeDraft,
\* changeResumeTone and refineResume is in flight at any time.
C18_MutualExclusion ==
    op = "App" => Cardinality(OperationsInFlight) <= 1

\* C19: when the user has cancelled the initial generation (goBack from the
\* GENERATING step), the completion of that generation does not move the
\* wizard to REVIEW and does not change the step displayed.
C19_CancelDiscardsResult ==
    [][ (GenerateReturn(AppResults) /\ View(app) # "GENERATING")
            => (View(app') = View(app) /\ View(app') # "REVIEW") ]_vars

\* C20: a tone-change request for 'eager' never calls changeResumeTone and
\* leaves the drafts, the loading flags and the error as they are: in every
\* state with a key set handleGenerateTone('eager') returns the state it was
\* given, the Eager tab starts nothing and changes none of them, and no
\* suspended handleGenerateTone is one for 'eager'. When the initial generation
\* completes successfully the drafts are exactly the 'eager' draft returned.
C20_ToneExclusivity ==
    [][ op = "App" =>
          /\ app.apiKey =>
                 /\ handleGenerateTone(app, "eager") = app
                 /\ ~ToneRequestStarts(app, "eager")
          /\ ToneChange("eager") =>
                 /\ tasks' = tasks
                 /\ app'.draftResumes = app.draftResumes
                 /\ app'.isLoading = app.isLoading
                 /\ app'.isRefining = app.isRefining
                 /\ app'.error = app.error
          /\ \A k \in 1..Len(tasks) : tasks[k].kind = "tone" => tasks[k].tone # "eager"
          /\ GenerateReturn(AppResults) =>
                 \E draft \in AppResults : app'.draftResumes = <<"eager" :> draft>> ]_vars

\* the initial generation has completed: REVIEW is shown with the 'eager'
\* draft returned as the only draft, nothing is running and the tone tabs are
\* enabled
C20_Witness ==
    /\ op = "App" /\ View(app) = "REVIEW"
    /\ tasks = <<>> /\ ~app.isLoading
    /\ app.draftResumes = <<"eager" :> Draft(ToSeq("b"))>>

\* C21: refineResume never completes successfully (onComplete called) when the
\* resume body at the end of the stream, formatAIResponse of the trimmed raw
\* text before the delimiter, is empty.
C21_RefineEmptyResponse ==
    (op = "refineResume" /\ pc = "done") =>
        /\ formatAIResponse(ResumePart(op, Trim(fullRawText))) # <<>>
        /\ formatAIResponse(Trim(fullRawText)) # <<>>

\* the messages of the configuration error
KeyErrors ==
    { ToSeq("API Key is not set. Please set it in the settings."),
      ToSeq("API Key is not set.") }

\* C22: when no API key is set, a call of handleGenerate, handleGenerateTone or
\* handleRefineResume sets a configuration error message, starts no operation
\* of the service (no handler is left waiting, preprocessText included) and
\* leaves history, currentStep and the drafts as they were.
C22_MissingCredential ==
    [][ (op = "handlers" /\ ~app.apiKey) =>
          /\ app'.error # <<>> /\ app'.error[1] \in KeyErrors
          /\ tasks' = tasks
          /\ app'.history = app.history
          /\ app'.currentStep = app.currentStep
          /\ app'.draftResumes = app.draftResumes
          /\ ~app'.apiKey ]_vars

\* a handler was called without a key on the JOB_DESCRIPTION step with drafts:
\* the error is set, nothing was started and the step and drafts are in place
C22_Witness ==
    /\ op = "handlers" /\ ~app.apiKey
    /\ app.error = <<ToSeq("API Key is not set.")>>
    /\ app.history = <<"UPLOAD", "JOB_DESCRIPTION">> /\ app.currentStep = 1
    /\ app.draftResumes # <<>>
    /\ tasks = <<>>

\* the same letter, in either case
SameLetter(a, b) ==
    \/ a = b
    \/ \E n \in 1..26 : {a, b} = {LowerCase[n], UpperCase[n]}

\* marker occurs in s, its letters in any case
IncludesAnyCase(s, marker) ==
    \E k \in 1..(Len(s) - Len(marker) + 1) :
        \A j \in 1..Len(marker) : SameLetter(s[k + j - 1], marker[j])

\* the errors C23 calls retryable
C23_Marked(errorMessage) ==
    \/ \E digits \in {ToSeq("429"), ToSeq("500"), ToSeq("503")} :
           Includes(errorMessage, digits)
    \/ \E marker \in {ToSeq("SERVICE UNAVAILABLE"), ToSeq("RESOURCE_EXHAUSTED"),
                      ToSeq("RATE LIMIT")} :
           IncludesAnyCase(errorMessage, marker)

\* C23: withRetry treats an error as retryable exactly when its message
\* contains '429', '500' or '503', or one of 'SERVICE UNAVAILABLE',
\* 'RESOURCE_EXHAUSTED', 'RATE LIMIT' in any letter case: before the last
\* attempt it waits for another attempt after such an error and after no
\* other, and raises every other error at once.
C23_RetryableClassification ==
    (op = "withRetry" /\ lastError # <<>>) =>
        LET errorMessage == getErrorMessage(lastError[1])
        IN  /\ rpc = "wait" => C23_Marked(errorMessage)
            /\ (rpc = "thrown" /\ i < MAX_RETRIES - 1) => ~C23_Marked(errorMessage)
            /\ rpc \in {"wait", "thrown"} =>
                   (calls[Len(calls)] = "retryable" <=> C23_Marked(errorMessage))

\* withRetry waits for another attempt after an error whose marker is in lower case
C23_Witness ==
    /\ op = "withRetry" /\ rpc = "wait"
    /\ lastError = <<Err("rate limit exceeded")>>

\* withRetry raised at once an error that has the words of a marker but not the marker
C23_WitnessFatal ==
    /\ op = "withRetry" /\ rpc = "thrown" /\ i = 0
    /\ lastError = <<Err("RESOURCE EXHAUSTED")>>

\* C24: formatAIResponse('**Bold** and _ital_ and * item') has no emphasis
\* marker and no bullet character, and has the list item as two spaces
\* followed by 'item'.
C24_MarkupRemoval ==
    ( /\ op = "formatAIResponse" /\ Len(fmt) >= 2
      /\ fmt[1] = ToSeq("**Bold** and _ital_ and * item") )
        => /\ \A k \in 1..Len(fmt[2]) : fmt[2][k] \notin {"*", "_"}
           /\ Includes(fmt[2], ToSeq("  item"))

\* the text after the emphasis markers are removed, as formatAIResponse does it
C25_Stripped(rawText) ==
    StripItalicUnderscore(
        StripItalicStar(StripDouble(StripDouble(rawText, "*", 1), "_", 1), 1), 1)

\* the number of characters of the list marker of a trimmed line, with the one
\* whitespace after it; 0 when the line is not a list item
C25_MarkerLength(t) ==
    IF StartsWith(t, <<"*", " ">>) \/ StartsWith(t, <<"-", " ">>) THEN 2
    ELSE LET digits == {n \in 1..Len(t) :
                           /\ \A k \in 1..n : IsDigit(t[k])
                           /\ n + 2 <= Len(t) /\ t[n + 1] = "."
                           /\ IsWhitespace(t[n + 2])}
         IN  IF digits = {} THEN 0 ELSE MaxOf(digits) + 2

\* the line C25 asks for: two spaces and everything after the marker
C25_Line(line) ==
    LET t == Trim(line)
        n == C25_MarkerLength(t)
    IN  IF n = 0 THEN line ELSE <<" ", " ">> \o SubSeq(t, n + 1, Len(t))

\* C25: every line whose trimmed form starts with '* ', '- ' or digits, '.' and
\* a whitespace (a tab included) is replaced by two spaces followed by all of
\* the content after the marker; every other line is left as it is (the whole
\* text is trimmed at the end).
C25_ListRule ==
    (op = "formatAIResponse" /\ Len(fmt) >= 2 /\ fmt[1] # <<>>) =>
        LET lines == SplitLines(C25_Stripped(fmt[1]))
        IN  fmt[2] = Trim(JoinLines([k \in 1..Len(lines) |-> C25_Line(lines[k])]))

\* the list rule of C25 on the texts in which no tab follows an ordered marker
C25_ListRuleWithoutTab ==
    (op = "formatAIResponse" /\ Len(fmt) >= 2 /\ "\t" \notin {fmt[1][k] : k \in 1..Len(fmt[1])})
        => C25_ListRule

\* C26: in every streaming loop an increment whose formatted buffer is not
\* longer than what was already emitted calls onChunk with nothing; every
\* onChunk argument is a non-empty string; the lengths of the emitted chunks
\* add up to the recorded emitted length, which never decreases.
C26_NonRetreatingEmission ==
    [][ (op \in StreamingOps) =>
          /\ Len(formatAIResponse(ResumePart(op, fullRawText'))) <= Len(lastSent)
                 => (sent' = sent /\ lastSent' = lastSent)
          /\ \A k \in 1..Len(sent') : sent'[k] # <<>>
          /\ Len(Flatten(sent')) = Len(lastSent')
          /\ Len(lastSent') >= Len(lastSent)
          /\ Len(sent') \in {Len(sent), Len(sent) + 1} ]_vars

\* after an emission an increment made the formatted buffer shorter than what
\* was emitted, and nothing was emitted for it
C26_Witness ==
    /\ op \in StreamingOps /\ pc = "open"
    /\ Len(sent) = 1 /\ Increments = 2
    /\ Len(formatAIResponse(ResumePart(op, fullRawText))) < Len(lastSent)

\* C27: refineResume calls fetchBestPractices if and only if useBestPractices
\* is true: with useBestPractices it is the first thing refineResume does, and
\* without it no search request is made, onSources is never called, no source
\* is recorded and the prompt has no best-practices section.
C27_BestPracticesOnRequest ==
    (op = "refineResume" /\ pc # "start") =>
        /\ useBestPractices => (pc = "fetch" \/ fetched # "none")
        /\ ~useBestPractices =>
               /\ pc # "fetch" /\ fetched = "none"
               /\ Count("generateContent") = 0
               /\ Count("onSources") = 0
               /\ sources = <<>>
               /\ bestPracticesSection(bestPracticesText) = <<>>

\* refineResume without useBestPractices has streamed text and completed
C27_Witness ==
    /\ op = "refineResume" /\ ~useBestPractices /\ pc = "done"
    /\ Count("onChunk") >= 1 /\ Count("onComplete") = 1

\* refineResume with useBestPractices has handed the sources over and completed
C27_WitnessRequested ==
    /\ op = "refineResume" /\ useBestPractices /\ pc = "done"
    /\ fetched = "ok" /\ Count("onSources") = 1
    /\ bestPracticesSection(bestPracticesText) # <<>>

\* setStep(newState) as C28 states it, on the history and index of the moment
\* of the call
C28_Pushed(newState) ==
    /\ app'.history = Append(SubSeq(app.history, 1, app.currentStep + 1), newState)
    /\ app'.currentStep = Len(app'.history) - 1

\* the part of C28 about the index and the first entry, and about goBack and
\* goForward called from the buttons
C28_HistoryBounds ==
    op = "App" =>
        /\ 0 <= app.currentStep /\ app.currentStep < Len(app.history)
        /\ app.history[1] = "UPLOAD"
        /\ goBack(app, Closure(app)).history = app.history
        /\ goForward(app, Closure(app)).history = app.history
        /\ goBack(app, Closure(app)).currentStep
               = IF app.currentStep = 0 THEN 0 ELSE app.currentStep - 1
        /\ goForward(app, Closure(app)).currentStep
               = IF app.currentStep = Len(app.history) - 1
                 THEN app.currentStep ELSE app.currentStep + 1

\* C28: for every sequence of setStep, goBack, goForward and handleStartOver,
\* those made by a handler after an await included, 0 <= currentStep <
\* history.length and history[0] = UPLOAD; goBack and goForward leave history
\* alone and do nothing at the bounds; every setStep removes the entries after
\* the current index, appends the new state and makes it current.
C28_WizardHistory ==
    [][ op = "App" =>
          /\ C28_HistoryBounds
          /\ UploadRead => C28_Pushed("JOB_DESCRIPTION")
          /\ Generate => C28_Pushed("GENERATING")
          /\ GenerateReturn(AppResults) => C28_Pushed("REVIEW")
          /\ Accept(EditableTexts) => C28_Pushed("FINAL") ]_vars

\* C29: handleRefine keeps the text that is submitted; the Undo that follows
\* sets the editable text to exactly that text and is then unavailable until
\* the next handleRefine; a tone tab clears the undo state; nothing else
\* changes what an Undo would restore.
C29_UndoAfterRefinement ==
    [][ op = "ResumeReviewer" =>
          /\ ReviewerRefine =>
                 reviewer'.previousDraftText = <<reviewer.editableText>>
          /\ ReviewerUndo =>
                 /\ reviewer'.editableText = reviewer.previousDraftText[1]
                 /\ reviewer'.previousDraftText = <<>>
          /\ reviewer.previousDraftText = <<>> => ~ReviewerUndo
          /\ (\E tone \in AppTones : ReviewerToneChange(tone)) =>
                 reviewer'.previousDraftText = <<>>
          /\ reviewer'.previousDraftText # reviewer.previousDraftText =>
                 \/ ReviewerRefine
                 \/ ReviewerUndo
                 \/ \E tone \in AppTones : ReviewerToneChange(tone) ]_vars

\* the generated text was submitted for a refinement, the refined draft has
\* another text, and the Undo has put the submitted text back in the text area
C29_Witness ==
    /\ op = "ResumeReviewer" /\ ~app.isLoading /\ tasks = <<>>
    /\ app.lastFeedback = ToSeq("f")
    /\ currentDraft(app) # <<>> /\ currentDraft(app)[1].text = ToSeq("a")
    /\ currentDraft(app)[1].changelog = <<ToSeq("c")>>
    /\ reviewer.editableText = ToSeq("b")
    /\ reviewer.previousDraftText = <<>>

\* the last part of a name split at its dots (the whole name when it has no
\* dot) is one of pdf, docx, txt, md, in any letter case
C30_ValidExtension(name) ==
    \E e \in {ToSeq("pdf"), ToSeq("docx"), ToSeq("txt"), ToSeq("md")} :
        /\ Len(name) >= Len(e)
        /\ \A k \in 1..Len(e) : SameLetter(name[Len(name) - Len(e) + k], e[k])
        /\ Len(name) > Len(e) => name[Len(name) - Len(e)] = "."

\* C30: after any sequence of handleFiles and handleRemoveFile calls the list
\* of selected files has at most 10 entries, no two entries have the same
\* name, and the extension of every entry (the part of its name after the
\* last dot, in any letter case) is one of pdf, docx, txt, md.
C30_UploaderBounds ==
    op = "ResumeUploader" =>
        /\ Len(uploader.files) <= 10
        /\ \A j, k \in 1..Len(uploader.files) :
               uploader.files[j] = uploader.files[k] => j = k
        /\ \A k \in 1..Len(uploader.files) : C30_ValidExtension(uploader.files[k])

\* ten files are selected, and the last handleFiles stopped at the maximum and
\* ignored an unsupported file
C30_Witness ==
    /\ op = "ResumeUploader"
    /\ Len(uploader.files) = 10
    /\ uploader.files[1] # ToSeq("r1.pdf")
    /\ uploader.uploadWarning
           = << ToSeq("Ignored unsupported files: virus.exe. Please use .pdf, .docx, .txt, .md. Maximum of 10 resumes reached.") >>

\* C31: when generateInitialResumeDraft fails after preprocessing, the wizard
\* ends on the JOB_DESCRIPTION step, with the error message set and isLoading
\* false.
C31_GenerationFailureStep ==
    [][ (op = "App" /\ GenerateFailed(FailureMessages)) =>
            /\ View(app') = "JOB_DESCRIPTION"
            /\ app'.error \in { <<e>> : e \in FailureMessages }
            /\ ~app'.isLoading ]_vars

\* the part of C31 about the error message and the loading flag
C31_ErrorAndFlag ==
    [][ (op = "App" /\ GenerateFailed(FailureMessages)) =>
            /\ app'.error \in { <<e>> : e \in FailureMessages }
            /\ ~app'.isLoading ]_vars

\* where the wizard is after a failed generation: on the UPLOAD step
C31_StepAfterFailure ==
    [][ (op = "App" /\ GenerateFailed(FailureMessages)) =>
            View(app') = "UPLOAD" /\ app'.currentStep = 0 ]_vars

\* a draft for the tone that no changeResumeTone returned: the empty or partly
\* streamed draft that a failed handleGenerateTone leaves in draftResumes
C32_LeftByFailure(tone) ==
    /\ HasDraft(app.draftResumes, tone)
    /\ app.draftResumes[1][tone] \notin AppResults

\* C32: after changeResumeTone has failed for a tone t of confident or expert,
\* a later request for t, with nothing in flight and a non-empty eager draft,
\* invokes changeResumeTone again; it is not skipped because of the empty or
\* partial draft for t left in the draft set.
C32_FailedToneRetry ==
    [][ \A tone \in AppTones \ {"eager"} :
          ( /\ op = "App" /\ tasks = <<>>
            /\ C32_LeftByFailure(tone)
            /\ HasDraft(app.draftResumes, "eager")
            /\ app.draftResumes[1]["eager"].text # <<>>
            /\ ToneChange(tone) )
          => /\ Len(tasks') = 1
             /\ InFlight(tasks'[1]) = "changeResumeTone" ]_vars

\* what the code does instead: the request changes nothing but the tab
C32_RetrySkipped ==
    [][ \A tone \in AppTones \ {"eager"} :
          ( /\ op = "App" /\ tasks = <<>>
            /\ C32_LeftByFailure(tone)
            /\ ToneChange(tone) )
          => /\ tasks' = <<>>
             /\ app' = [app EXCEPT !.selectedTone = tone] ]_vars

\* C33: an error raised while the opened stream is iterated is not retried:
\* the operation opens no further stream and makes no further step, the chunks
\* passed to onChunk stay as they are (none retracted, none sent again), and
\* the operation fails with the error of its own catch block, not with the
\* error of the stream.
C33_MidStreamFailureFinal ==
    [][ (op \in StreamingOps) =>
          /\ StreamError(FewErrors) =>
                 /\ pc' = "failed"
                 /\ sent' = sent /\ lastSent' = lastSent
                 /\ calls' = calls /\ rpc' = rpc /\ log' = log
                 /\ underlying' # <<>> /\ underlying'[1] \in FewErrors
                 /\ thrown' = <<CatchError(op, underlying'[1])>>
                 /\ thrown' \in { <<ServiceBusyError(op)>>, <<GenericError(op)>> }
                 /\ thrown' # underlying'
          /\ pc = "failed" => UNCHANGED vars ]_vars

\* a stream failed after it was opened at the first attempt and after a chunk
\* was passed to onChunk
C33_Witness ==
    /\ op \in StreamingOps /\ pc = "failed"
    /\ calls = <<"ok">> /\ rpc = "returned"
    /\ sent = <<ToSeq("a")>>
    /\ underlying = <<Err("fetch failed")>>
    /\ thrown = <<GenericError(op)>>

\* a stream that was opened after two retried attempts failed with a
\* rate-limit error while it was iterated
C33_WitnessAfterRetries ==
    /\ op = "refineResume" /\ pc = "failed"
    /\ calls = <<"retryable", "retryable", "ok">> /\ rpc = "returned"
    /\ underlying = <<Err("got status: 429 Too Many Requests")>>
    /\ thrown = <<ServiceBusyError(op)>>

\* C34: refineResume calls onComplete exactly once when the stream ends
\* successfully, after the last onChunk call (it is the last thing the
\* operation does), and never when the operation fails.
C34_OnCompleteProtocol ==
    op = "refineResume" =>
        /\ Count("onComplete") <= 1
        /\ pc = "done" <=> Count("onComplete") = 1
        /\ pc = "done" <=> changelog # <<>>
        /\ pc = "failed" => Count("onComplete") = 0
        /\ Count("onComplete") = 1 => log[Len(log)] = "onComplete"
        /\ pc = "done" => (thrown = <<>> /\ underlying = <<>>)

\* refineResume has completed after two chunks were passed to onChunk
C34_Witness ==
    /\ op = "refineResume" /\ pc = "done"
    /\ Len(sent) = 2
    /\ log[Len(log)] = "onComplete" /\ log[Len(log) - 1] = "onChunk"

\* refineResume has failed after a chunk was passed to onChunk
C34_WitnessFailed ==
    /\ op = "refineResume" /\ pc = "failed"
    /\ Len(sent) = 1 /\ thrown # <<>>
    /\ Count("onComplete") = 0

\* a handler of App finishes after its await, by success or by failure
C35_HandlerFinishes ==
    \/ UploadRead \/ UploadFailed(FailureMessages)
    \/ GenerateReturn(AppResults) \/ GenerateFailed(FailureMessages)
    \/ ToneReturn(AppResults) \/ ToneFailed(FailureMessages)
    \/ RefineReturn(AppChangelogs) \/ RefineFailed(FailureMessages)

\* C35: whenever handleGenerate, handleGenerateTone, handleRefineResume or
\* handleResumesUpload finishes, by success or by failure, isLoading and
\* isRefining are false.
C35_FlagsReleased ==
    [][ (op = "App" /\ C35_HandlerFinishes) =>
            (~app'.isLoading /\ ~app'.isRefining) ]_vars

\* the part of C35 that holds: a handler that finishes leaves isLoading false,
\* and leaves isRefining false unless a refinement is still in flight
C35_LoadingReleased ==
    [][ (op = "App" /\ C35_HandlerFinishes) =>
            /\ ~app'.isLoading
            /\ app'.isRefining =>
                   \E k \in 1..Len(tasks') : tasks'[k].kind = "refine" ]_vars

\* every call of the service, and readFilesAsText, eventually resolves or rejects
C35_EveryCallSettles ==
    /\ WF_vars(UploadRead \/ UploadFailed(FailureMessages))
    /\ WF_vars(PreprocessDone)
    /\ WF_vars(GenerateReturn(AppResults) \/ GenerateFailed(FailureMessages))
    /\ WF_vars(ToneReturn(AppResults) \/ ToneFailed(FailureMessages))
    /\ WF_vars(RefineReturn(AppChangelogs) \/ RefineFailed(FailureMessages))

\* the wizard with calls that settle
SpecAppSettling == SpecApp /\ C35_EveryCallSettles

SpecAppFailuresSettling == SpecAppFailures /\ C35_EveryCallSettles

\* the liveness part of C35, which holds under SpecAppSettling and under
\* SpecAppFailuresSettling: isLoading eventually becomes false after each
\* operation starts
C35_LoadingEventuallyReleased == app.isLoading ~> ~app.isLoading

\* C36: the wizard shows the GENERATING step only while an initial generation
\* is in flight: once the generation has succeeded or failed, no Back or
\* Forward brings the GENERATING step back.
C36_NoOrphanLoader ==
    (op = "App" /\ View(app) = "GENERATING") =>
        \E k \in 1..Len(tasks) : tasks[k].kind = "generate"

\* draftResumes[tone] of the component state s: <<>> when undefined
C37_DraftOf(s, tone) ==
    IF HasDraft(s.draftResumes, tone) THEN <<s.draftResumes[1][tone]>> ELSE <<>>

\* C37: starting a refinement of the draft of tone t clears that draft's text
\* and changelog, clears its sources only when useBestPractices is true (the
\* sources are unchanged otherwise), and leaves the drafts of every other tone
\* unchanged.
C37_RefineStartFrame ==
    [][ \A feedback \in Feedbacks \cup {<<>>}, confidence \in AppTones, ubp \in BOOLEAN :
          (op = "handlers" /\ app.apiKey /\ CallRefine(feedback, confidence, ubp)) =>
              LET before == C37_DraftOf(app, confidence)
                  after == C37_DraftOf(app', confidence)
              IN  /\ after # <<>>
                  /\ after[1].text = <<>>
                  /\ after[1].changelog = <<>>
                  /\ after[1].sources =
                         IF ubp \/ before = <<>> THEN <<>> ELSE before[1].sources
                  /\ \A tone \in ConfidenceLevels \ {confidence} :
                         C37_DraftOf(app', tone) = C37_DraftOf(app, tone) ]_vars

\* a refinement of the eager draft without best practices was started: its
\* text and changelog are cleared, its sources are kept, and the confident
\* draft is as it was
C37_Witness ==
    /\ op = "handlers" /\ app.apiKey
    /\ Len(tasks) = 1 /\ tasks[1].kind = "refine" /\ tasks[1].tone = "eager"
    /\ C37_DraftOf(app, "eager") =
           <<[RefinedDraft EXCEPT !.text = <<>>, !.changelog = <<>>]>>
    /\ C37_DraftOf(app, "confident") = <<Draft(ToSeq("d"))>>

\* a refinement of the eager draft with best practices was started: its
\* sources are cleared as well
C37_WitnessBestPractices ==
    /\ op = "handlers" /\ app.apiKey
    /\ Len(tasks) = 1 /\ tasks[1].kind = "refine" /\ tasks[1].tone = "eager"
    /\ C37_DraftOf(app, "eager") = <<Draft(<<>>)>>
    /\ C37_DraftOf(app, "confident") = <<Draft(ToSeq("d"))>>

\* a refinement is in flight in the mounted ResumeReviewer
C38_Refining == tasks # <<>> /\ tasks[1].kind = "refine"

\* the text of the draft being refined
C38_Text(s) == s.draftResumes[1][tasks[1].tone].text

\* the texts that chunks passed to onChunk add up to
C38_Concatenations ==
    { StreamedText(chunks) :
        chunks \in UNION { [1..n -> AppChunks] : n \in 0..MaxDraftLength } }

\* refineResume rejects: the step of ReviewerSettled that sets the error
C38_RefineFails ==
    /\ C38_Refining
    /\ ReviewerSettled(AppResults, AppChangelogs, AppErrors)
    /\ app'.error # <<>>

C38_WitnessEmpty ==
    /\ op = "ResumeReviewer" /\ tasks = <<>> /\ ~app.isLoading
    /\ app.error # <<>>
    /\ app.lastFeedback = ToSeq("f")
    /\ app.selectedTone = "eager"
    /\ currentDraft(app) # <<>> /\ currentDraft(app)[1].text = <<>>
    /\ reviewer.previousDraftText = <<ToSeq("b")>>

\* the text returned by the operations in the wizard
C39_ReturnedTexts == { draft.text : draft \in AppResults }

\* C39: after generateInitialResumeDraft or changeResumeTone succeeds, the
\* caller's draft text for that tone is the text the operation returned,
\* formatAIResponse(trim(raw)), whatever chunks were streamed into the draft
\* before.
C39_FinalTextReplaces ==
    [][ op = "App" =>
          /\ GenerateReturn(AppResults) =>
                 /\ HasDraft(app'.draftResumes, "eager")
                 /\ app'.draftResumes[1]["eager"].text \in C39_ReturnedTexts
                 /\ app'.draftResumes[1]["eager"] \in AppResults
          /\ \A tone \in AppTones \ {"eager"} :
                 ( /\ ToneReturn(AppResults)
                   /\ \E k \in 1..Len(tasks) :
                          /\ tasks[k].kind = "tone" /\ tasks[k].tone = tone
                          /\ tasks' = RemoveAt(tasks, k) )
                 => /\ HasDraft(app'.draftResumes, tone)
                    /\ app'.draftResumes[1][tone] \in AppResults ]_vars

\* the eager draft holds the returned text after a chunk had been streamed
\* into it and the generation has returned
C39_Witness ==
    /\ op = "App" /\ View(app) = "REVIEW" /\ tasks = <<>> /\ ~app.isLoading
    /\ app.error = <<>>
    /\ HasDraft(app.draftResumes, "eager")
    /\ app.draftResumes[1]["eager"].text = ToSeq("b")
    /\ ~HasDraft(app.draftResumes, "confident")

\* a tone change is in flight and a chunk has been streamed into its draft
C39_WitnessStreamed ==
    /\ op = "App" /\ View(app) = "REVIEW"
    /\ Len(tasks) = 1 /\ InFlight(tasks[1]) = "changeResumeTone"
    /\ tasks[1].tone = "confident"
    /\ HasDraft(app.draftResumes, "confident")
    /\ app.draftResumes[1]["confident"].text = ToSeq("a")

\* the confident draft holds the returned text and nothing of the chunk
C39_WitnessTone ==
    /\ op = "App" /\ View(app) = "REVIEW" /\ tasks = <<>> /\ ~app.isLoading
    /\ app.error = <<>> /\ app.selectedTone = "confident"
    /\ HasDraft(app.draftResumes, "confident")
    /\ app.draftResumes[1]["confident"] = Draft(ToSeq("b"))

\* the text that generateInitialResumeDraft and changeResumeTone return, which
\* holds under SpecOps and SpecReconcile
C39_ReturnedText ==
    (op \in {"generateInitialResumeDraft", "changeResumeTone"} /\ pc = "done") =>
        result = <<formatAIResponse(Trim(fullRawText))>>

\* an operation has returned a text that differs from what its chunks add up
\* to (reached under SpecReconcile)
C39_WitnessDiffers ==
    /\ op \in {"generateInitialResumeDraft", "changeResumeTone"} /\ pc = "done"
    /\ sent # <<>>
    /\ result # <<StreamedText(sent)>>

====
